---- MODULE Spec2Model ----
(***************************************************************************)
(* Unity: unit parsing, dimensional compatibility, conversion, unit        *)
(* inversion and Quantity addition/subtraction (src/src/unity/core.py,     *)
(* src/src/unity/db.py, src/src/unity/quantity.py).                        *)
(*                                                                         *)
(* Unit strings are sequences of one-character strings, so that            *)
(* str.split, the token regex, int() and str() are modelled by what they   *)
(* do to the text.  Floats are modelled as exact values inside the range   *)
(* of an IEEE-754 double (rounding of the mantissa is abstracted), with    *)
(* inf, nan, underflow to 0.0 and the exceptions Python raises.            *)
(***************************************************************************)
EXTENDS Integers, Sequences, FiniteSets, TLC

(***************************************************************************)
(* Text                                                                    *)
(***************************************************************************)

\* [a-zA-Z] of the token regex
AsciiLetters ==
    {"a","b","c","d","e","f","g","h","i","j","k","l","m",
     "n","o","p","q","r","s","t","u","v","w","x","y","z",
     "A","B","C","D","E","F","G","H","I","J","K","L","M",
     "N","O","P","Q","R","S","T","U","V","W","X","Y","Z"}

\* \d of the token regex (ASCII digits)
AsciiDigits == {"0","1","2","3","4","5","6","7","8","9"}

\* the characters str.strip() and str.split() treat as whitespace
Whitespace == {" ", "\t", "\n"}

DigitVal(c) ==
    CASE c = "0" -> 0 [] c = "1" -> 1 [] c = "2" -> 2 [] c = "3" -> 3
      [] c = "4" -> 4 [] c = "5" -> 5 [] c = "6" -> 6 [] c = "7" -> 7
      [] c = "8" -> 8 [] c = "9" -> 9

DigitChar(d) ==
    CASE d = 0 -> "0" [] d = 1 -> "1" [] d = 2 -> "2" [] d = 3 -> "3"
      [] d = 4 -> "4" [] d = 5 -> "5" [] d = 6 -> "6" [] d = 7 -> "7"
      [] d = 8 -> "8" [] d = 9 -> "9"

\* str.strip(): drop leading and trailing whitespace
RECURSIVE StripLeft(_)
StripLeft(s) ==
    IF s # <<>> /\ Head(s) \in Whitespace THEN StripLeft(Tail(s)) ELSE s

RECURSIVE StripRight(_)
StripRight(s) ==
    IF s # <<>> /\ s[Len(s)] \in Whitespace
    THEN StripRight(SubSeq(s, 1, Len(s) - 1)) ELSE s

Strip(s) == StripRight(StripLeft(s))

\* str.split() without argument: the maximal runs of non-whitespace
RECURSIVE SplitFrom(_, _, _, _)
SplitFrom(s, i, cur, acc) ==
    IF i > Len(s)
    THEN IF cur = <<>> THEN acc ELSE Append(acc, cur)
    ELSE IF s[i] \in Whitespace
         THEN SplitFrom(s, i + 1, <<>>,
                        IF cur = <<>> THEN acc ELSE Append(acc, cur))
         ELSE SplitFrom(s, i + 1, Append(cur, s[i]), acc)

Split(s) == SplitFrom(s, 1, <<>>, <<>>)

\* sep.join(words)
RECURSIVE Join(_, _)
Join(words, sep) ==
    IF words = <<>> THEN <<>>
    ELSE IF Len(words) = 1 THEN words[1]
    ELSE words[1] \o sep \o Join(Tail(words), sep)

\* int(text) for text matching [-+]?\d+
RECURSIVE DigitsVal(_)
DigitsVal(ds) ==
    IF ds = <<>> THEN 0
    ELSE 10 * DigitsVal(SubSeq(ds, 1, Len(ds) - 1)) + DigitVal(ds[Len(ds)])

ParseInt(text) ==
    IF Head(text) = "-" THEN 0 - DigitsVal(Tail(text))
    ELSE IF Head(text) = "+" THEN DigitsVal(Tail(text))
    ELSE DigitsVal(text)

\* str(n) for an int n, as the f-string writes it
RECURSIVE NatToChars(_)
NatToChars(n) ==
    IF n < 10 THEN <<DigitChar(n)>>
    ELSE Append(NatToChars(n \div 10), DigitChar(n % 10))

IntToChars(n) == IF n < 0 THEN <<"-">> \o NatToChars(0 - n) ELSE NatToChars(n)

\* number of leading characters of tok in [a-zA-Z]
RECURSIVE AlphaPrefixLen(_)
AlphaPrefixLen(tok) ==
    IF tok # <<>> /\ Head(tok) \in AsciiLetters
    THEN 1 + AlphaPrefixLen(Tail(tok)) ELSE 0

\* text matches [-+]?\d+
IsSignedInt(text) ==
    LET body == IF text # <<>> /\ Head(text) \in {"-", "+"}
                THEN Tail(text) ELSE text
    IN  body # <<>> /\ \A i \in 1..Len(body) : body[i] \in AsciiDigits

\* pattern.match(token) for ^([a-zA-Z]+)([-+]?\d+)?$ : group 1 is the whole
\* leading run of letters, group 2 the rest (<<>> stands for None)
PatternMatch(token) ==
    LET n    == AlphaPrefixLen(token)
        rest == SubSeq(token, n + 1, Len(token))
    IN  IF n = 0 THEN [ok |-> FALSE, name |-> <<>>, exp |-> <<>>]
        ELSE IF rest = <<>> \/ IsSignedInt(rest)
             THEN [ok |-> TRUE, name |-> SubSeq(token, 1, n), exp |-> rest]
             ELSE [ok |-> FALSE, name |-> <<>>, exp |-> <<>>]

\* int(exponent_str) if exponent_str else 1
Exponent(m) == IF m.exp = <<>> THEN 1 ELSE ParseInt(m.exp)

(***************************************************************************)
(* Numbers.  A finite float is an exact finite sum of terms n * M, where n *)
(* is a non-zero integer coefficient and M a monomial prod p^e over the    *)
(* primes that occur in the scales of the Unit Table; t maps each M to its *)
(* n (the empty map is 0.0).  k is "fin", "inf" or "nan"; sg is the sign   *)
(* of an infinity.  Structural equality of two numbers implies equality of *)
(* the reals they stand for.                                               *)
(***************************************************************************)

\* round(1000 * log10(p)) for the primes of the Unit Table's scales
Log10Milli(p) ==
    CASE p = 2 -> 301 [] p = 3 -> 477 [] p = 5 -> 699 [] p = 7 -> 845
      [] p = 17 -> 1230 [] p = 31 -> 1491 [] p = 59 -> 1771 [] p = 67 -> 1826
      [] p = 71 -> 1851 [] p = 73 -> 1863 [] p = 89 -> 1949 [] p = 97 -> 1987
      [] p = 127 -> 2104 [] p = 197 -> 2294 [] p = 307 -> 2487
      [] p = 383 -> 2583 [] p = 743 -> 2871 [] p = 1201 -> 3080
      [] p = 1777 -> 3250 [] p = 2903 -> 3463 [] p = 7457 -> 3873
      [] p = 12211 -> 4087 [] p = 28019 -> 4447

\* 1000 * log10 of the largest finite double, 1.7976931348623157e308
FloatMaxLog == 308254

\* 1000 * log10 of half the smallest subnormal double: below it a result
\* rounds to 0.0
FloatMinLog == -323607

EmptyMono == [p \in {} |-> 0]

MonoExp(a, p) == IF p \in DOMAIN a THEN a[p] ELSE 0

MonoMul(a, b) ==
    LET s(p) == MonoExp(a, p) + MonoExp(b, p)
    IN  [p \in {q \in DOMAIN a \cup DOMAIN b : s(q) # 0} |-> s(p)]

MonoPow(a, n) == [p \in {q \in DOMAIN a : a[q] * n # 0} |-> a[p] * n]

MonoInv(a) == MonoPow(a, -1)

\* the monomial 10^e
Pow10(e) == MonoPow([p \in {2, 5} |-> 1], e)

RECURSIVE MonoLogOver(_, _)
MonoLogOver(a, ps) ==
    IF ps = {} THEN 0
    ELSE LET p == CHOOSE q \in ps : TRUE
         IN  a[p] * Log10Milli(p) + MonoLogOver(a, ps \ {p})

\* 1000 * log10 of the monomial
MonoLog(a) == MonoLogOver(a, DOMAIN a)

Abs(n) == IF n < 0 THEN 0 - n ELSE n

\* about 1000 * log10(n) for an integer n >= 1
RECURSIVE IntLog(_)
IntLog(n) ==
    IF n < 10
    THEN CASE n = 1 -> 0 [] n = 2 -> 301 [] n = 3 -> 477 [] n = 4 -> 602
           [] n = 5 -> 699 [] n = 6 -> 778 [] n = 7 -> 845 [] n = 8 -> 903
           [] n = 9 -> 954
    ELSE 1000 + IntLog(n \div 10)

Fin(t) == [k |-> "fin", sg |-> 0, t |-> t]
Zero == Fin([m \in {} |-> 0])
Single(m, n) == Fin([x \in {m} |-> n])
One == Single(EmptyMono, 1)
Inf(s) == [k |-> "inf", sg |-> s, t |-> [m \in {} |-> 0]]
NaN == [k |-> "nan", sg |-> 0, t |-> [m \in {} |-> 0]]

IsZero(x) == x.k = "fin" /\ DOMAIN x.t = {}

TermCoef(t, m) == IF m \in DOMAIN t THEN t[m] ELSE 0

TermsAdd(t1, t2) ==
    LET s(m) == TermCoef(t1, m) + TermCoef(t2, m)
    IN  [m \in {x \in DOMAIN t1 \cup DOMAIN t2 : s(x) # 0} |-> s(m)]

\* every term of t multiplied by n * m
TermsScale(t, m, n) ==
    [x \in {MonoMul(y, m) : y \in DOMAIN t} |-> n * t[MonoMul(x, MonoInv(m))]]

RECURSIVE TermsMulOver(_, _, _)
TermsMulOver(t1, t2, ms) ==
    IF ms = {} THEN [m \in {} |-> 0]
    ELSE LET m == CHOOSE x \in ms : TRUE
         IN  TermsAdd(TermsScale(t1, m, t2[m]),
                      TermsMulOver(t1, t2, ms \ {m}))

TermsMul(t1, t2) == TermsMulOver(t1, t2, DOMAIN t2)

TermsNeg(t) == [m \in DOMAIN t |-> 0 - t[m]]

TermLog(t, m) == MonoLog(m) + IntLog(Abs(t[m]))

\* the term of largest magnitude of a non-zero finite number
TopTerm(t) ==
    CHOOSE m \in DOMAIN t : \A x \in DOMAIN t : TermLog(t, x) <= TermLog(t, m)

\* 1000 * log10 |x| of a non-zero finite number (that of its largest term)
Mag(x) == TermLog(x.t, TopTerm(x.t))

SignOf(x) ==
    IF x.k = "inf" THEN x.sg
    ELSE IF x.k = "nan" \/ IsZero(x) THEN 0
    ELSE IF x.t[TopTerm(x.t)] < 0 THEN -1 ELSE 1

\* a real result stored in a double: too large becomes inf, too small 0.0
FRound(x) ==
    IF x.k # "fin" \/ IsZero(x) THEN x
    ELSE IF Mag(x) > FloatMaxLog THEN Inf(SignOf(x))
    ELSE IF Mag(x) < FloatMinLog THEN Zero
    ELSE x

\* float * float
FMul(x, y) ==
    IF x.k = "nan" \/ y.k = "nan" THEN NaN
    ELSE IF x.k = "inf" \/ y.k = "inf"
         THEN IF IsZero(x) \/ IsZero(y) THEN NaN
              ELSE Inf(SignOf(x) * SignOf(y))
    ELSE FRound(Fin(TermsMul(x.t, y.t)))

\* float + float
FAdd(x, y) ==
    IF x.k = "nan" \/ y.k = "nan" THEN NaN
    ELSE IF x.k = "inf" /\ y.k = "inf"
         THEN IF x.sg = y.sg THEN x ELSE NaN
    ELSE IF x.k = "inf" THEN x
    ELSE IF y.k = "inf" THEN y
    ELSE FRound(Fin(TermsAdd(x.t, y.t)))

FNeg(x) ==
    IF x.k = "nan" THEN NaN
    ELSE IF x.k = "inf" THEN Inf(0 - x.sg)
    ELSE Fin(TermsNeg(x.t))

\* float - float
FSub(x, y) == FAdd(x, FNeg(y))

\* 1 / y for a finite non-zero y of one term with coefficient 1 or -1 (every
\* divisor of this program is a unit scale, a product of powers of table
\* scales)
Reciprocal(y) ==
    LET m == CHOOSE x \in DOMAIN y.t : DOMAIN y.t = {x} /\ y.t[x] \in {1, -1}
    IN  Single(MonoInv(m), y.t[m])

\* Python's float / float: a zero divisor raises ZeroDivisionError, every
\* other case follows IEEE-754
FDiv(x, y) ==
    IF IsZero(y) THEN [st |-> "ZeroDivisionError", val |-> NaN]
    ELSE IF x.k = "nan" \/ y.k = "nan" THEN [st |-> "ok", val |-> NaN]
    ELSE IF y.k = "inf"
         THEN [st |-> "ok", val |-> IF x.k = "inf" THEN NaN ELSE Zero]
    ELSE IF x.k = "inf"
         THEN [st |-> "ok", val |-> Inf(x.sg * SignOf(y))]
    ELSE [st |-> "ok", val |-> FRound(Fin(TermsMul(x.t, Reciprocal(y).t)))]

\* Python's float ** int for a finite positive base of one term: a result
\* above the double range raises OverflowError, one below it is 0.0
FPow(x, n) ==
    LET m == CHOOSE y \in DOMAIN x.t : DOMAIN x.t = {y} /\ x.t[y] = 1
        r == Single(MonoPow(m, n), 1)
    IN  IF Mag(r) > FloatMaxLog THEN [st |-> "OverflowError", val |-> NaN]
        ELSE [st |-> "ok", val |-> FRound(r)]

(***************************************************************************)
(* Values.  A Quantity's value is a float (a number as above) or a numpy    *)
(* array.  The contents of an array are a shape and its elements in        *)
(* row-major order; element types are not tracked (every element is a      *)
(* float).  Operators between an array and a float act on every element    *)
(* and follow IEEE-754 without raising.                                    *)
(***************************************************************************)

ArrayData(shape, data) == [k |-> "data", shape |-> shape, data |-> data]

\* isinstance(value, np.ndarray)
IsNdarray(v) == v.k \in {"data", "arr"}

\* numpy's x / y on elements: a zero divisor gives inf or nan
IEEEDiv(x, y) ==
    IF IsZero(y)
    THEN IF x.k = "nan" \/ IsZero(x) THEN NaN ELSE Inf(SignOf(x))
    ELSE FDiv(x, y).val

RECURSIVE Product(_)
Product(shape) == IF shape = <<>> THEN 1 ELSE Head(shape) * Product(Tail(shape))

\* np.shape(v) and the elements of v in row-major order; a float has the
\* empty shape
ShapeOf(v) == IF IsNdarray(v) THEN v.shape ELSE <<>>
DataOf(v) == IF IsNdarray(v) THEN v.data ELSE <<v>>

\* a shape aligned from the trailing dimension to rank n: extents of 1 in
\* front
PadShape(shape, n) ==
    [i \in 1..n |->
        IF i <= n - Len(shape) THEN 1 ELSE shape[i - (n - Len(shape))]]

RankOf(s, t) == IF Len(s) > Len(t) THEN Len(s) ELSE Len(t)

\* numpy's broadcasting rule on two shapes: each aligned pair of extents is
\* equal or holds a 1
ShapesBroadcast(s, t) ==
    \A i \in 1..RankOf(s, t) :
        \/ PadShape(s, RankOf(s, t))[i] = PadShape(t, RankOf(s, t))[i]
        \/ PadShape(s, RankOf(s, t))[i] = 1
        \/ PadShape(t, RankOf(s, t))[i] = 1

Broadcasts(v, w) == ShapesBroadcast(ShapeOf(v), ShapeOf(w))

BroadcastShape(s, t) ==
    [i \in 1..RankOf(s, t) |->
        IF PadShape(s, RankOf(s, t))[i] = 1 THEN PadShape(t, RankOf(s, t))[i]
        ELSE PadShape(s, RankOf(s, t))[i]]

\* coordinate i of the k-th element (from 1) of an array of this shape
Coord(k, shape, i) ==
    ((k - 1) \div Product(SubSeq(shape, i + 1, Len(shape)))) % shape[i]

\* the offset in an operand of padded shape p of the element that meets
\* element k of the result: an extent of 1 is read at coordinate 0
RECURSIVE SourceOffset(_, _, _, _)
SourceOffset(k, rshape, p, i) ==
    IF i > Len(p) THEN 0
    ELSE (IF p[i] = 1 THEN 0
          ELSE Coord(k, rshape, i) * Product(SubSeq(p, i + 1, Len(p))))
             + SourceOffset(k, rshape, p, i + 1)

\* the element of v that meets element k of the result of shape rshape
ElementFor(v, k, rshape) ==
    DataOf(v)[SourceOffset(k, rshape, PadShape(ShapeOf(v), Len(rshape)), 1) + 1]

\* the message of the ValueError numpy raises for shapes that do not
\* broadcast
MsgBroadcast == "operands could not be broadcast together"

\* v * w on operands that broadcast
ValMul(v, w) ==
    IF ~IsNdarray(v) /\ ~IsNdarray(w) THEN FMul(v, w)
    ELSE ArrayData(BroadcastShape(ShapeOf(v), ShapeOf(w)),
             [k \in 1..Product(BroadcastShape(ShapeOf(v), ShapeOf(w))) |->
                 FMul(ElementFor(v, k, BroadcastShape(ShapeOf(v), ShapeOf(w))),
                      ElementFor(w, k, BroadcastShape(ShapeOf(v), ShapeOf(w))))])

\* v + w on operands that broadcast
ValAdd(v, w) ==
    IF ~IsNdarray(v) /\ ~IsNdarray(w) THEN FAdd(v, w)
    ELSE ArrayData(BroadcastShape(ShapeOf(v), ShapeOf(w)),
             [k \in 1..Product(BroadcastShape(ShapeOf(v), ShapeOf(w))) |->
                 FAdd(ElementFor(v, k, BroadcastShape(ShapeOf(v), ShapeOf(w))),
                      ElementFor(w, k, BroadcastShape(ShapeOf(v), ShapeOf(w))))])

\* v - w on operands that broadcast
ValSub(v, w) ==
    IF ~IsNdarray(v) /\ ~IsNdarray(w) THEN FSub(v, w)
    ELSE ArrayData(BroadcastShape(ShapeOf(v), ShapeOf(w)),
             [k \in 1..Product(BroadcastShape(ShapeOf(v), ShapeOf(w))) |->
                 FSub(ElementFor(v, k, BroadcastShape(ShapeOf(v), ShapeOf(w))),
                      ElementFor(w, k, BroadcastShape(ShapeOf(v), ShapeOf(w))))])

\* v / w on operands that broadcast: between two floats Python raises
\* ZeroDivisionError on a zero divisor
ValDiv(v, w) ==
    IF ~IsNdarray(v) /\ ~IsNdarray(w) THEN FDiv(v, w)
    ELSE [st |-> "ok",
          val |-> ArrayData(BroadcastShape(ShapeOf(v), ShapeOf(w)),
             [k \in 1..Product(BroadcastShape(ShapeOf(v), ShapeOf(w))) |->
                 IEEEDiv(ElementFor(v, k, BroadcastShape(ShapeOf(v), ShapeOf(w))),
                         ElementFor(w, k, BroadcastShape(ShapeOf(v), ShapeOf(w))))])]

(***************************************************************************)
(* Unit Table (db.py).  UNIT_DB_ITEMS lists the entries of the dict        *)
(* literal in source order, each scale as its prime factorisation.         *)
(***************************************************************************)

UNIT_DB_ITEMS == <<
    \* line 6: "kg" scale 1.0
    [key |-> <<"k","g">>, scale |-> Single(EmptyMono, 1),
     dims |-> ("M" :> 1)],
    \* line 7: "g" scale 1e-3
    [key |-> <<"g">>, scale |-> Single((2 :> -3 @@ 5 :> -3), 1),
     dims |-> ("M" :> 1)],
    \* line 8: "mg" scale 1e-6
    [key |-> <<"m","g">>, scale |-> Single((2 :> -6 @@ 5 :> -6), 1),
     dims |-> ("M" :> 1)],
    \* line 9: "t" scale 1e3
    [key |-> <<"t">>, scale |-> Single((2 :> 3 @@ 5 :> 3), 1),
     dims |-> ("M" :> 1)],
    \* line 11: "lb" scale 0.453592
    [key |-> <<"l","b">>, scale |-> Single((2 :> -3 @@ 5 :> -6 @@ 31 :> 2 @@ 59 :> 1), 1),
     dims |-> ("M" :> 1)],
    \* line 12: "oz" scale 0.0283495
    [key |-> <<"o","z">>, scale |-> Single((2 :> -7 @@ 5 :> -6 @@ 31 :> 2 @@ 59 :> 1), 1),
     dims |-> ("M" :> 1)],
    \* line 13: "tn" scale 907.185
    [key |-> <<"t","n">>, scale |-> Single((2 :> -3 @@ 3 :> 1 @@ 5 :> -2 @@ 197 :> 1 @@ 307 :> 1), 1),
     dims |-> ("M" :> 1)],
    \* line 14: "LT" scale 1016.05
    [key |-> <<"L","T">>, scale |-> Single((2 :> -2 @@ 5 :> -1 @@ 7 :> 1 @@ 2903 :> 1), 1),
     dims |-> ("M" :> 1)],
    \* line 17: "m" scale 1.0
    [key |-> <<"m">>, scale |-> Single(EmptyMono, 1),
     dims |-> ("L" :> 1)],
    \* line 18: "mm" scale 1e-3
    [key |-> <<"m","m">>, scale |-> Single((2 :> -3 @@ 5 :> -3), 1),
     dims |-> ("L" :> 1)],
    \* line 19: "cm" scale 1e-2
    [key |-> <<"c","m">>, scale |-> Single((2 :> -2 @@ 5 :> -2), 1),
     dims |-> ("L" :> 1)],
    \* line 20: "km" scale 1e3
    [key |-> <<"k","m">>, scale |-> Single((2 :> 3 @@ 5 :> 3), 1),
     dims |-> ("L" :> 1)],
    \* line 22: "in" scale 0.0254
    [key |-> <<"i","n">>, scale |-> Single((2 :> -3 @@ 5 :> -4 @@ 127 :> 1), 1),
     dims |-> ("L" :> 1)],
    \* line 23: "ft" scale 0.3048
    [key |-> <<"f","t">>, scale |-> Single((2 :> -1 @@ 3 :> 1 @@ 5 :> -4 @@ 127 :> 1), 1),
     dims |-> ("L" :> 1)],
    \* line 24: "yd" scale 0.9144
    [key |-> <<"y","d">>, scale |-> Single((2 :> -1 @@ 3 :> 2 @@ 5 :> -4 @@ 127 :> 1), 1),
     dims |-> ("L" :> 1)],
    \* line 25: "mi" scale 1609.34
    [key |-> <<"m","i">>, scale |-> Single((2 :> -1 @@ 5 :> -2 @@ 67 :> 1 @@ 1201 :> 1), 1),
     dims |-> ("L" :> 1)],
    \* line 28: "s" scale 1.0
    [key |-> <<"s">>, scale |-> Single(EmptyMono, 1),
     dims |-> ("T" :> 1)],
    \* line 29: "min" scale 60.0
    [key |-> <<"m","i","n">>, scale |-> Single((2 :> 2 @@ 3 :> 1 @@ 5 :> 1), 1),
     dims |-> ("T" :> 1)],
    \* line 30: "h" scale 3600.0
    [key |-> <<"h">>, scale |-> Single((2 :> 4 @@ 3 :> 2 @@ 5 :> 2), 1),
     dims |-> ("T" :> 1)],
    \* line 31: "d" scale 86400.0
    [key |-> <<"d">>, scale |-> Single((2 :> 7 @@ 3 :> 3 @@ 5 :> 2), 1),
     dims |-> ("T" :> 1)],
    \* line 32: "y" scale 31536000.0
    [key |-> <<"y">>, scale |-> Single((2 :> 7 @@ 3 :> 3 @@ 5 :> 3 @@ 73 :> 1), 1),
     dims |-> ("T" :> 1)],
    \* line 35: "Hz" scale 1.0
    [key |-> <<"H","z">>, scale |-> Single(EmptyMono, 1),
     dims |-> ("T" :> -1)],
    \* line 36: "kHz" scale 1e3
    [key |-> <<"k","H","z">>, scale |-> Single((2 :> 3 @@ 5 :> 3), 1),
     dims |-> ("T" :> -1)],
    \* line 37: "MHz" scale 1e6
    [key |-> <<"M","H","z">>, scale |-> Single((2 :> 6 @@ 5 :> 6), 1),
     dims |-> ("T" :> -1)],
    \* line 38: "GHz" scale 1e9
    [key |-> <<"G","H","z">>, scale |-> Single((2 :> 9 @@ 5 :> 9), 1),
     dims |-> ("T" :> -1)],
    \* line 39: "THz" scale 1e12
    [key |-> <<"T","H","z">>, scale |-> Single((2 :> 12 @@ 5 :> 12), 1),
     dims |-> ("T" :> -1)],
    \* line 40: "PHz" scale 1e15
    [key |-> <<"P","H","z">>, scale |-> Single((2 :> 15 @@ 5 :> 15), 1),
     dims |-> ("T" :> -1)],
    \* line 41: "EHz" scale 1e18
    [key |-> <<"E","H","z">>, scale |-> Single((2 :> 18 @@ 5 :> 18), 1),
     dims |-> ("T" :> -1)],
    \* line 42: "ZHz" scale 1e21
    [key |-> <<"Z","H","z">>, scale |-> Single((2 :> 21 @@ 5 :> 21), 1),
     dims |-> ("T" :> -1)],
    \* line 45: "N" scale 1.0
    [key |-> <<"N">>, scale |-> Single(EmptyMono, 1),
     dims |-> ("M" :> 1 @@ "L" :> 1 @@ "T" :> -2)],
    \* line 46: "kN" scale 1e3
    [key |-> <<"k","N">>, scale |-> Single((2 :> 3 @@ 5 :> 3), 1),
     dims |-> ("M" :> 1 @@ "L" :> 1 @@ "T" :> -2)],
    \* line 47: "lbf" scale 4.44822
    [key |-> <<"l","b","f">>, scale |-> Single((2 :> -4 @@ 3 :> 1 @@ 5 :> -5 @@ 7 :> 2 @@ 17 :> 1 @@ 89 :> 1), 1),
     dims |-> ("M" :> 1 @@ "L" :> 1 @@ "T" :> -2)],
    \* line 50: "Pa" scale 1.0
    [key |-> <<"P","a">>, scale |-> Single(EmptyMono, 1),
     dims |-> ("M" :> 1 @@ "L" :> -1 @@ "T" :> -2)],
    \* line 51: "kPa" scale 1e3
    [key |-> <<"k","P","a">>, scale |-> Single((2 :> 3 @@ 5 :> 3), 1),
     dims |-> ("M" :> 1 @@ "L" :> -1 @@ "T" :> -2)],
    \* line 52: "psi" scale 6894.76
    [key |-> <<"p","s","i">>, scale |-> Single((5 :> -2 @@ 97 :> 1 @@ 1777 :> 1), 1),
     dims |-> ("M" :> 1 @@ "L" :> -1 @@ "T" :> -2)],
    \* line 55: "L" scale 1e-3
    [key |-> <<"L">>, scale |-> Single((2 :> -3 @@ 5 :> -3), 1),
     dims |-> ("L" :> 3)],
    \* line 56: "mL" scale 1e-6
    [key |-> <<"m","L">>, scale |-> Single((2 :> -6 @@ 5 :> -6), 1),
     dims |-> ("L" :> 3)],
    \* line 57: "gal" scale 0.00378541
    [key |-> <<"g","a","l">>, scale |-> Single((2 :> -8 @@ 5 :> -8 @@ 31 :> 1 @@ 12211 :> 1), 1),
     dims |-> ("L" :> 3)],
    \* line 61: "g" scale 9.80665
    [key |-> <<"g">>, scale |-> Single((2 :> -5 @@ 5 :> -4 @@ 7 :> 1 @@ 28019 :> 1), 1),
     dims |-> ("L" :> 1 @@ "T" :> -2)],
    \* line 64: "J" scale 1.0
    [key |-> <<"J">>, scale |-> Single(EmptyMono, 1),
     dims |-> ("M" :> 1 @@ "L" :> 2 @@ "T" :> -2)],
    \* line 65: "kJ" scale 1e3
    [key |-> <<"k","J">>, scale |-> Single((2 :> 3 @@ 5 :> 3), 1),
     dims |-> ("M" :> 1 @@ "L" :> 2 @@ "T" :> -2)],
    \* line 66: "MJ" scale 1e6
    [key |-> <<"M","J">>, scale |-> Single((2 :> 6 @@ 5 :> 6), 1),
     dims |-> ("M" :> 1 @@ "L" :> 2 @@ "T" :> -2)],
    \* line 67: "ft_lbf" scale 1.35582
    [key |-> <<"f","t","_","l","b","f">>, scale |-> Single((2 :> -4 @@ 3 :> 1 @@ 5 :> -5 @@ 59 :> 1 @@ 383 :> 1), 1),
     dims |-> ("M" :> 1 @@ "L" :> 2 @@ "T" :> -2)],
    \* line 68: "Btu" scale 1055.06
    [key |-> <<"B","t","u">>, scale |-> Single((2 :> -1 @@ 5 :> -2 @@ 71 :> 1 @@ 743 :> 1), 1),
     dims |-> ("M" :> 1 @@ "L" :> 2 @@ "T" :> -2)],
    \* line 71: "W" scale 1.0
    [key |-> <<"W">>, scale |-> Single(EmptyMono, 1),
     dims |-> ("M" :> 1 @@ "L" :> 2 @@ "T" :> -3)],
    \* line 72: "kW" scale 1e3
    [key |-> <<"k","W">>, scale |-> Single((2 :> 3 @@ 5 :> 3), 1),
     dims |-> ("M" :> 1 @@ "L" :> 2 @@ "T" :> -3)],
    \* line 73: "MW" scale 1e6
    [key |-> <<"M","W">>, scale |-> Single((2 :> 6 @@ 5 :> 6), 1),
     dims |-> ("M" :> 1 @@ "L" :> 2 @@ "T" :> -3)],
    \* line 74: "hp" scale 745.7
    [key |-> <<"h","p">>, scale |-> Single((2 :> -1 @@ 5 :> -1 @@ 7457 :> 1), 1),
     dims |-> ("M" :> 1 @@ "L" :> 2 @@ "T" :> -3)]
>>

\* name in UNIT_DB
InUnitDB(name) == \E i \in 1..Len(UNIT_DB_ITEMS) : UNIT_DB_ITEMS[i].key = name

\* UNIT_DB[name]: when a dict literal repeats a key, the last entry is the
\* one the dict holds
UNIT_DB(name) ==
    LET i == CHOOSE j \in 1..Len(UNIT_DB_ITEMS) :
                 /\ UNIT_DB_ITEMS[j].key = name
                 /\ \A l \in (j + 1)..Len(UNIT_DB_ITEMS) :
                        UNIT_DB_ITEMS[l].key # name
    IN  UNIT_DB_ITEMS[i]

(***************************************************************************)
(* core.py                                                                 *)
(***************************************************************************)

EmptyDims == [d \in {} |-> 0]

\* an outcome is a returned value or a raised exception with the head of
\* its message
Return(v) == [st |-> "ok", msg |-> "", val |-> v]
Raise(exc, msg) == [st |-> exc, msg |-> msg, val |-> <<>>]

MsgInvalidToken == "Invalid unit token"
MsgUnknownUnit == "Unknown unit"
MsgIncompatible == "Incompatible units"

\* CanonicalUnit.__init__ storing dims as given, zero exponents included
CanonicalUnit_KeepZero(scale, dims) == [scale |-> scale, dims |-> dims]

\* CanonicalUnit.__init__: dimensions with exponent 0 are dropped
CanonicalUnit(scale, dims) ==
    [scale |-> scale,
     dims  |-> [d \in {x \in DOMAIN dims : dims[x] # 0} |-> dims[d]]]

\* for dim, dim_exp in unit_def["dims"].items():
\*     total_dims[dim] += dim_exp * exponent
DimsAccumulate(total_dims, def_dims, exponent) ==
    [d \in DOMAIN total_dims \cup DOMAIN def_dims |->
        (IF d \in DOMAIN total_dims THEN total_dims[d] ELSE 0)
      + (IF d \in DOMAIN def_dims THEN def_dims[d] * exponent ELSE 0)]

\* the token loop of parse_unit, from token i on
RECURSIVE ParseLoop(_, _, _, _)

\* total_scale *= power; total_dims[dim] += dim_exp * exponent; next token
ParseAccumulate(tokens, i, total_scale, total_dims, unit_def, exponent, power) ==
    IF power.st # "ok" THEN Raise(power.st, "")
    ELSE ParseLoop(tokens, i + 1, FMul(total_scale, power.val),
                   DimsAccumulate(total_dims, unit_def.dims, exponent))

\* unit_def["scale"] ** exponent
ParsePower(tokens, i, total_scale, total_dims, unit_def, exponent) ==
    ParseAccumulate(tokens, i, total_scale, total_dims, unit_def, exponent,
                    FPow(unit_def.scale, exponent))

\* the body of the loop for token i, match being pattern.match(token)
ParseToken(tokens, i, total_scale, total_dims, match) ==
    IF ~match.ok THEN Raise("ValueError", MsgInvalidToken)
    ELSE IF ~InUnitDB(match.name) THEN Raise("ValueError", MsgUnknownUnit)
    ELSE ParsePower(tokens, i, total_scale, total_dims, UNIT_DB(match.name),
                    Exponent(match))

ParseLoop(tokens, i, total_scale, total_dims) ==
    IF i > Len(tokens) THEN Return(CanonicalUnit(total_scale, total_dims))
    ELSE ParseToken(tokens, i, total_scale, total_dims,
                    PatternMatch(tokens[i]))

\* parse_unit checking every word against the grammar before any lookup
parse_unit_GrammarFirst(unit_str) ==
    IF \E tok \in {Split(Strip(unit_str))[i] :
                       i \in 1..Len(Split(Strip(unit_str)))} :
           ~PatternMatch(tok).ok
    THEN Raise("ValueError", MsgInvalidToken)
    ELSE ParseLoop(Split(Strip(unit_str)), 1, One, EmptyDims)

parse_unit(unit_str) == ParseLoop(Split(Strip(unit_str)), 1, One, EmptyDims)

\* return value * factor, factor being c_from.scale / c_to.scale
ConvScaled(value, factor) ==
    IF factor.st # "ok" THEN Raise(factor.st, "")
    ELSE Return(ValMul(value, factor.val))

\* conv reporting the failures of to_unit before those of from_unit
ConvParsed_ToFirst(value, c_from, c_to) ==
    IF c_to.st # "ok" THEN Raise(c_to.st, c_to.msg)
    ELSE IF c_from.st # "ok" THEN Raise(c_from.st, c_from.msg)
    ELSE IF c_from.val.dims # c_to.val.dims
         THEN Raise("ValueError", MsgIncompatible)
    ELSE ConvScaled(value, FDiv(c_from.val.scale, c_to.val.scale))

\* conv after its two parse_unit calls
ConvParsed(value, c_from, c_to) ==
    IF c_from.st # "ok" THEN Raise(c_from.st, c_from.msg)
    ELSE IF c_to.st # "ok" THEN Raise(c_to.st, c_to.msg)
    ELSE IF c_from.val.dims # c_to.val.dims
         THEN Raise("ValueError", MsgIncompatible)
    ELSE ConvScaled(value, FDiv(c_from.val.scale, c_to.val.scale))

conv(value, from_unit, to_unit) ==
    ConvParsed(value, parse_unit(from_unit), parse_unit(to_unit))

\* try: ... except ValueError: return False
ValidParsed(c_from, c_to) ==
    IF c_from.st = "ValueError" THEN Return(FALSE)
    ELSE IF c_from.st # "ok" THEN Raise(c_from.st, c_from.msg)
    ELSE IF c_to.st = "ValueError" THEN Return(FALSE)
    ELSE IF c_to.st # "ok" THEN Raise(c_to.st, c_to.msg)
    ELSE Return(c_from.val.dims = c_to.val.dims)

valid(from_unit, to_unit) ==
    ValidParsed(parse_unit(from_unit), parse_unit(to_unit))

\* the suffix omitted when the exponent before negation is 1
InvertedToken_OmitOnOldExponent(match) ==
    IF Exponent(match) = 1 THEN match.name
    ELSE match.name \o IntToChars(0 - Exponent(match))

\* the suffix written for every token
InvertedToken_AlwaysSuffix(match) ==
    match.name \o IntToChars(0 - Exponent(match))

\* one token of invert_unit's output
InvertedToken(match) ==
    LET new_exponent == 0 - Exponent(match)
    IN  IF new_exponent = 1 THEN match.name
        ELSE match.name \o IntToChars(new_exponent)

RECURSIVE InvertLoop(_, _, _)

\* the body of invert_unit's loop for token i
InvertToken(tokens, i, inverted_tokens, match) ==
    IF ~match.ok THEN Raise("ValueError", MsgInvalidToken)
    ELSE InvertLoop(tokens, i + 1,
                    Append(inverted_tokens, InvertedToken(match)))

InvertLoop(tokens, i, inverted_tokens) ==
    IF i > Len(tokens) THEN Return(Join(inverted_tokens, <<" ">>))
    ELSE InvertToken(tokens, i, inverted_tokens, PatternMatch(tokens[i]))

invert_unit(unit_str) == InvertLoop(Split(Strip(unit_str)), 1, <<>>)

(***************************************************************************)
(* quantity.py (scalar values)                                             *)
(***************************************************************************)

MsgIncompatibleAdd == "Incompatible units for addition"
MsgIncompatibleSub == "Incompatible units for subtraction"

\* Quantity.__init__ with a scalar value
Quantity(value, unit) == [value |-> value, unit |-> unit]

\* return Quantity(self.value + other_converted_val, self.unit)
AddConverted(self, other_converted_val) ==
    IF other_converted_val.st # "ok"
    THEN Raise(other_converted_val.st, other_converted_val.msg)
    ELSE IF ~Broadcasts(self.value, other_converted_val.val)
         THEN Raise("ValueError", MsgBroadcast)
    ELSE Return(Quantity(ValAdd(self.value, other_converted_val.val),
                         self.unit))

\* __add__ trying the shapes of the values before the units
AddChecked_ShapeFirst(self, other, ok) ==
    IF ~Broadcasts(self.value, other.value)
    THEN Raise("ValueError", MsgBroadcast)
    ELSE IF ok.st # "ok" THEN Raise(ok.st, ok.msg)
    ELSE IF ~ok.val THEN Raise("ValueError", MsgIncompatibleAdd)
    ELSE AddConverted(self, conv(other.value, other.unit, self.unit))

\* __add__ after its call of valid
AddChecked(self, other, ok) ==
    IF ok.st # "ok" THEN Raise(ok.st, ok.msg)
    ELSE IF ~ok.val THEN Raise("ValueError", MsgIncompatibleAdd)
    ELSE AddConverted(self, conv(other.value, other.unit, self.unit))

\* Quantity.__add__ with a Quantity operand
Quantity_add(self, other) ==
    AddChecked(self, other, valid(self.unit, other.unit))

\* return Quantity(self.value - other_converted_val, self.unit)
SubConverted(self, other_converted_val) ==
    IF other_converted_val.st # "ok"
    THEN Raise(other_converted_val.st, other_converted_val.msg)
    ELSE IF ~Broadcasts(self.value, other_converted_val.val)
         THEN Raise("ValueError", MsgBroadcast)
    ELSE Return(Quantity(ValSub(self.value, other_converted_val.val),
                         self.unit))

\* __sub__ after its call of valid
SubChecked(self, other, ok) ==
    IF ok.st # "ok" THEN Raise(ok.st, ok.msg)
    ELSE IF ~ok.val THEN Raise("ValueError", MsgIncompatibleSub)
    ELSE SubConverted(self, conv(other.value, other.unit, self.unit))

\* Quantity.__sub__ with a Quantity operand
Quantity_sub(self, other) ==
    SubChecked(self, other, valid(self.unit, other.unit))

(***************************************************************************)
(* quantity.py (array values).  A numpy array is a handle on a buffer of    *)
(* the heap: buf names the buffer, shape the extents, pos the buffer        *)
(* positions of its elements in row-major order.  np.array(list) fills a    *)
(* new buffer; basic indexing with a slice, or with an integer on an array  *)
(* of rank above 1, returns a view, a handle on the same buffer.            *)
(***************************************************************************)

Ndarray(buf, shape, pos) == [k |-> "arr", buf |-> buf, shape |-> shape, pos |-> pos]

\* the elements seen through handle a
Elements(h, a) == [i \in 1..Len(a.pos) |-> h[a.buf][a.pos[i]]]

\* a value with every array handle replaced by the contents seen through it
Contents(h, v) ==
    IF v.k = "arr" THEN ArrayData(v.shape, Elements(h, v)) ELSE v

\* a Quantity with its value's contents
Deref(h, q) == Quantity(Contents(h, q.value), q.unit)

\* the heap after np.array(data), and the handle on the new buffer
HeapAlloc(h, data) == Append(h, data)
NewArray(h, shape, data) ==
    Ndarray(Len(h) + 1, shape, [i \in 1..Len(data) |-> i])

\* a result computed by numpy (array contents) is a new array on a new
\* buffer; a float stays a float
HeapAfter(h, v) == IF v.k = "data" THEN HeapAlloc(h, v.data) ELSE h
Stored(h, v) == IF v.k = "data" THEN NewArray(h, v.shape, v.data) ELSE v

\* slice.indices(n): start, stop, step are <<>> for None or a one-element
\* sequence; the result lists the selected positions 1..n in order
SliceStep(key) == IF key.step = <<>> THEN 1 ELSE key.step[1]

SliceClamp(i, n, step) ==
    IF i < 0
    THEN IF i + n < 0 THEN (IF step < 0 THEN -1 ELSE 0) ELSE i + n
    ELSE IF i >= n THEN (IF step < 0 THEN n - 1 ELSE n) ELSE i

SliceStart(key, n) ==
    IF key.start = <<>> THEN (IF SliceStep(key) < 0 THEN n - 1 ELSE 0)
    ELSE SliceClamp(key.start[1], n, SliceStep(key))

SliceStop(key, n) ==
    IF key.stop = <<>> THEN (IF SliceStep(key) < 0 THEN -1 ELSE n)
    ELSE SliceClamp(key.stop[1], n, SliceStep(key))

SliceLength(start, stop, step) ==
    IF step < 0
    THEN IF stop < start THEN (start - stop - 1) \div (0 - step) + 1 ELSE 0
    ELSE IF start < stop THEN (stop - start - 1) \div step + 1 ELSE 0

SliceIndices(key, n) ==
    [i \in 1..SliceLength(SliceStart(key, n), SliceStop(key, n),
                          SliceStep(key))
        |-> SliceStart(key, n) + (i - 1) * SliceStep(key) + 1]

\* the positions of the rows (indices along the first axis) in rows
RowsPos(a, rows) ==
    [i \in 1..(Len(rows) * Product(Tail(a.shape))) |->
        a.pos[(rows[(i - 1) \div Product(Tail(a.shape)) + 1] - 1)
                  * Product(Tail(a.shape))
              + ((i - 1) % Product(Tail(a.shape))) + 1]]

\* self.value[key] for an integer key: an element (rank 1) or a view
IndexInt(h, a, i) ==
    IF a.shape = <<>> \/ i < 0 - a.shape[1] \/ i >= a.shape[1]
    THEN Raise("IndexError", "")
    ELSE IF Len(a.shape) = 1
         THEN Return(h[a.buf][a.pos[(IF i < 0 THEN i + a.shape[1] ELSE i) + 1]])
    ELSE Return(Ndarray(a.buf, Tail(a.shape),
             RowsPos(a, <<(IF i < 0 THEN i + a.shape[1] ELSE i) + 1>>)))

\* self.value[key] for a slice key: a view
IndexSlice(a, key) ==
    IF a.shape = <<>> THEN Raise("IndexError", "")
    ELSE IF SliceStep(key) = 0 THEN Raise("ValueError", "slice step")
    ELSE Return(Ndarray(a.buf,
             <<Len(SliceIndices(key, a.shape[1]))>> \o Tail(a.shape),
             RowsPos(a, SliceIndices(key, a.shape[1]))))

\* Quantity.__init__: a list becomes np.array(value), a new array; an
\* ndarray is stored as it is; anything else becomes a float
ListValue(shape, data) == [k |-> "list", shape |-> shape, data |-> data]
InitHeap(h, value) == IF value.k = "list" THEN HeapAlloc(h, value.data) ELSE h
InitValue(h, value) ==
    IF value.k = "list" THEN NewArray(h, value.shape, value.data) ELSE value
Quantity___init__(h, value, unit) == Quantity(InitValue(h, value), unit)

\* the outcome of an operation computed on array contents, its array stored
ResultHeap(h, out) == IF out.st = "ok" THEN HeapAfter(h, out.val.value) ELSE h
ResultStored(h, out) ==
    IF out.st = "ok"
    THEN Return(Quantity(Stored(h, out.val.value), out.val.unit))
    ELSE out

IntKey(i) == [kind |-> "int", i |-> i, start |-> <<>>, stop |-> <<>>, step |-> <<>>]
SliceKey(start, stop, step) ==
    [kind |-> "slice", i |-> 0, start |-> start, stop |-> stop, step |-> step]

MsgNotArray == "Indexing is only supported for array quantities"

\* return Quantity(indexed_value, self.unit): np.ndim(indexed_value) == 0
\* gives float(indexed_value)
GetitemIndexed(self, indexed_value) ==
    IF indexed_value.st # "ok" THEN Raise(indexed_value.st, indexed_value.msg)
    ELSE Return(Quantity(indexed_value.val, self.unit))

Quantity___getitem___UnitDropped(h, self, key) ==
    IF ~IsNdarray(self.value) THEN Raise("TypeError", MsgNotArray)
    ELSE IF key.kind = "int"
         THEN GetitemIndexed(Quantity(self.value, <<>>),
                             IndexInt(h, self.value, key.i))
    ELSE GetitemIndexed(self, IndexSlice(self.value, key))

\* Quantity.__getitem__
Quantity___getitem__(h, self, key) ==
    IF ~IsNdarray(self.value) THEN Raise("TypeError", MsgNotArray)
    ELSE IF key.kind = "int"
         THEN GetitemIndexed(self, IndexInt(h, self.value, key.i))
    ELSE GetitemIndexed(self, IndexSlice(self.value, key))

\* the signal an operator method returns for an operand it does not handle
NotImplemented == [st |-> "NotImplemented", msg |-> "", val |-> <<>>]

\* return Quantity(new_value, target_unit)
ToConverted(new_value, target_unit) ==
    IF new_value.st # "ok" THEN Raise(new_value.st, new_value.msg)
    ELSE Return(Quantity(new_value.val, target_unit))

\* Quantity.to
Quantity_to(self, target_unit) ==
    ToConverted(conv(self.value, self.unit, target_unit), target_unit)

\* __add__ taking a plain number as a dimensionless Quantity
Quantity___add___NumberAccepted(self, other) ==
    IF other.kind = "number" THEN Quantity_add(self, Quantity(other.x, <<>>))
    ELSE IF other.kind # "Quantity" THEN NotImplemented
    ELSE Quantity_add(self, other.q)

\* Quantity.__add__: isinstance(other, Quantity) first
Quantity___add__(self, other) ==
    IF other.kind # "Quantity" THEN NotImplemented
    ELSE Quantity_add(self, other.q)

\* Quantity.__sub__
Quantity___sub__(self, other) ==
    IF other.kind # "Quantity" THEN NotImplemented
    ELSE Quantity_sub(self, other.q)

\* the unit of a product with no space before or after it
Quantity___mul___Unstripped(self, other) ==
    IF other.kind = "number"
    THEN Return(Quantity(ValMul(self.value, other.x), self.unit))
    ELSE IF other.kind # "Quantity" THEN NotImplemented
    ELSE IF ~Broadcasts(self.value, other.q.value)
         THEN Raise("ValueError", MsgBroadcast)
    ELSE Return(Quantity(ValMul(self.value, other.q.value),
                         self.unit \o <<" ">> \o other.q.unit))

\* Quantity.__mul__
Quantity___mul__(self, other) ==
    IF other.kind = "number"
    THEN Return(Quantity(ValMul(self.value, other.x), self.unit))
    ELSE IF other.kind # "Quantity" THEN NotImplemented
    ELSE IF ~Broadcasts(self.value, other.q.value)
         THEN Raise("ValueError", MsgBroadcast)
    ELSE Return(Quantity(ValMul(self.value, other.q.value),
                         Strip(self.unit \o <<" ">> \o other.q.unit)))

\* Quantity.__rmul__
Quantity___rmul__(self, other) ==
    IF other.kind = "number"
    THEN Return(Quantity(ValMul(self.value, other.x), self.unit))
    ELSE NotImplemented

\* result = self.value / other; return Quantity(result, self.unit)
TruedivNumber(self, result) ==
    IF result.st # "ok" THEN Raise(result.st, "")
    ELSE Return(Quantity(result.val, self.unit))

\* new_value = self.value / other.value, then invert_unit(other.unit), then
\* the stripped concatenation
TruedivQuantity(self, new_value, inverted_other_unit) ==
    IF new_value.st # "ok" THEN Raise(new_value.st, "")
    ELSE IF inverted_other_unit.st # "ok"
         THEN Raise(inverted_other_unit.st, inverted_other_unit.msg)
    ELSE Return(Quantity(new_value.val,
                    Strip(self.unit \o <<" ">> \o inverted_other_unit.val)))

\* __truediv__ joining the divisor's unit as it stands
Quantity___truediv___NotInverted(self, other) ==
    IF other.kind = "number"
    THEN TruedivNumber(self, ValDiv(self.value, other.x))
    ELSE IF other.kind # "Quantity" THEN NotImplemented
    ELSE IF ~Broadcasts(self.value, other.q.value)
         THEN Raise("ValueError", MsgBroadcast)
    ELSE TruedivQuantity(self, ValDiv(self.value, other.q.value),
                         Return(other.q.unit))

\* __truediv__ inverting the divisor's unit before it divides the values
Quantity___truediv___UnitFirst(self, other) ==
    IF other.kind = "number"
    THEN TruedivNumber(self, ValDiv(self.value, other.x))
    ELSE IF other.kind # "Quantity" THEN NotImplemented
    ELSE IF invert_unit(other.q.unit).st # "ok"
         THEN Raise(invert_unit(other.q.unit).st, invert_unit(other.q.unit).msg)
    ELSE IF ~Broadcasts(self.value, other.q.value)
         THEN Raise("ValueError", MsgBroadcast)
    ELSE TruedivQuantity(self, ValDiv(self.value, other.q.value),
                         invert_unit(other.q.unit))

\* Quantity.__truediv__
Quantity___truediv__(self, other) ==
    IF other.kind = "number"
    THEN TruedivNumber(self, ValDiv(self.value, other.x))
    ELSE IF other.kind # "Quantity" THEN NotImplemented
    ELSE IF ~Broadcasts(self.value, other.q.value)
         THEN Raise("ValueError", MsgBroadcast)
    ELSE TruedivQuantity(self, ValDiv(self.value, other.q.value),
                         invert_unit(other.q.unit))

\* result = other / self.value, then invert_unit(self.unit)
RtruedivNumber(result, inverted_unit) ==
    IF result.st # "ok" THEN Raise(result.st, "")
    ELSE IF inverted_unit.st # "ok"
         THEN Raise(inverted_unit.st, inverted_unit.msg)
    ELSE Return(Quantity(result.val, inverted_unit.val))

\* __rtruediv__ dividing the Quantity's value by the number
Quantity___rtruediv___Swapped(self, other) ==
    IF other.kind = "number"
    THEN RtruedivNumber(ValDiv(self.value, other.x), invert_unit(self.unit))
    ELSE NotImplemented

\* Quantity.__rtruediv__
Quantity___rtruediv__(self, other) ==
    IF other.kind = "number"
    THEN RtruedivNumber(ValDiv(other.x, self.value), invert_unit(self.unit))
    ELSE NotImplemented

(***************************************************************************)
(* quantity.py (format).  Texts are sequences of characters.  The numbers  *)
(* formatted are finite decimals of at most FracDigits fractional digits,  *)
(* compared and rounded exactly on their value times 10^FracDigits.        *)
(***************************************************************************)

\* most fractional decimal digits of a formatted value
FracDigits == 4

RECURSIVE PowInt(_, _)
PowInt(b, e) == IF e = 0 THEN 1 ELSE b * PowInt(b, e - 1)

\* the term n * 2^a * 5^b times 10^d, for a and b not below -d
TermScaled(t, m, d) ==
    t[m] * PowInt(2, MonoExp(m, 2) + d) * PowInt(5, MonoExp(m, 5) + d)

RECURSIVE ScaledOver(_, _, _)
ScaledOver(t, ms, d) ==
    IF ms = {} THEN 0
    ELSE TermScaled(t, CHOOSE m \in ms : TRUE, d)
             + ScaledOver(t, ms \ {CHOOSE m \in ms : TRUE}, d)

\* x * 10^d as an integer
Scaled(x, d) == ScaledOver(x.t, DOMAIN x.t, d)

\* x < y on floats
FLess(x, y) == Scaled(x, FracDigits) < Scaled(y, FracDigits)

\* abs(val)
FAbs(x) == IF Scaled(x, FracDigits) < 0 THEN FNeg(x) ELSE x

\* the decimal n * 10^e
Decimal(n, e) == IF n = 0 THEN Zero ELSE Single(Pow10(e), n)

\* the thresholds 0.1, 9999.9, 10, 100 and 1000 of get_format_string
Threshold_0_1 == Decimal(1, -1)
Threshold_9999_9 == Decimal(99999, -1)
Threshold_10 == Decimal(1, 1)
Threshold_100 == Decimal(1, 2)
Threshold_1000 == Decimal(1, 3)

Fmt_0f == <<"{", ":", ".", "0", "f", "}">>
Fmt_2E == <<"{", ":", ".", "2", "E", "}">>
Fmt_3f == <<"{", ":", ".", "3", "f", "}">>
Fmt_2f == <<"{", ":", ".", "2", "f", "}">>
Fmt_1f == <<"{", ":", ".", "1", "f", "}">>

get_format_string_Inclusive(num_format, val) ==
    IF num_format # <<>> THEN <<"{", ":">> \o num_format \o <<"}">>
    ELSE IF IsZero(FAbs(val)) THEN Fmt_0f
    ELSE IF FLess(FAbs(val), Threshold_0_1)
            \/ ~FLess(FAbs(val), Threshold_9999_9) THEN Fmt_2E
    ELSE IF FLess(FAbs(val), Threshold_10) THEN Fmt_3f
    ELSE IF FLess(FAbs(val), Threshold_100) THEN Fmt_2f
    ELSE IF FLess(FAbs(val), Threshold_1000) THEN Fmt_1f
    ELSE Fmt_0f

\* format.get_format_string, num_format being the enclosing call's argument
get_format_string(num_format, val) ==
    IF num_format # <<>> THEN <<"{", ":">> \o num_format \o <<"}">>
    ELSE IF IsZero(FAbs(val)) THEN Fmt_0f
    ELSE IF FLess(FAbs(val), Threshold_0_1)
            \/ FLess(Threshold_9999_9, FAbs(val)) THEN Fmt_2E
    ELSE IF FLess(FAbs(val), Threshold_10) THEN Fmt_3f
    ELSE IF FLess(FAbs(val), Threshold_100) THEN Fmt_2f
    ELSE IF FLess(FAbs(val), Threshold_1000) THEN Fmt_1f
    ELSE Fmt_0f

\* n / q rounded to the nearest integer, a tie to the even one
RoundDiv(n, q) ==
    IF 2 * (n % q) > q \/ (2 * (n % q) = q /\ (n \div q) % 2 = 1)
    THEN n \div q + 1 ELSE n \div q

RECURSIVE ZeroPad(_, _)
ZeroPad(ds, width) == IF Len(ds) >= width THEN ds ELSE ZeroPad(<<"0">> \o ds, width)

SignText(val) == IF Scaled(val, FracDigits) < 0 THEN <<"-">> ELSE <<>>

\* the digits of r / 10^d with d fractional digits
FixedDigits(r, d) ==
    NatToChars(r \div PowInt(10, d))
        \o (IF d = 0 THEN <<>>
            ELSE <<".">> \o ZeroPad(NatToChars(r % PowInt(10, d)), d))

\* "{:.df}".format(val)
FixedText(val, d) ==
    SignText(val)
        \o FixedDigits(RoundDiv(Scaled(FAbs(val), FracDigits),
                                PowInt(10, FracDigits - d)), d)

\* the d + 1 leading digits of s, a number of nd digits, rounded
SciMantissa(s, nd, d) ==
    IF nd - 1 >= d THEN RoundDiv(s, PowInt(10, nd - 1 - d))
    ELSE s * PowInt(10, d - nd + 1)

\* mantissa m (d + 1 digits) and exponent e as text
SciChars(m, e, d) ==
    <<Head(ZeroPad(NatToChars(m), d + 1))>>
        \o (IF d = 0 THEN <<>>
            ELSE <<".">> \o Tail(ZeroPad(NatToChars(m), d + 1)))
        \o <<"E">> \o (IF e < 0 THEN <<"-">> ELSE <<"+">>)
        \o ZeroPad(NatToChars(Abs(e)), 2)

\* rounding may carry the mantissa to 10^(d+1): one more in the exponent
SciCarried(m, e, d) ==
    IF m >= PowInt(10, d + 1) THEN SciChars(m \div 10, e + 1, d)
    ELSE SciChars(m, e, d)

SciDigits(s, nd, d) ==
    IF s = 0 THEN SciChars(0, 0, d)
    ELSE SciCarried(SciMantissa(s, nd, d), nd - 1 - FracDigits, d)

\* "{:.dE}".format(val)
SciText(val, d) ==
    SignText(val)
        \o SciDigits(Scaled(FAbs(val), FracDigits),
                     Len(NatToChars(Scaled(FAbs(val), FracDigits))), d)

\* fmt.format(val) for fmt = "{:.dt}" with one digit d and t in f, E
StrFormat(fmt, val) ==
    IF fmt[5] = "f" THEN FixedText(val, DigitVal(fmt[4]))
    ELSE SciText(val, DigitVal(fmt[4]))

\* the format strings chosen for the elements of a value, and their texts
ElementsOf(value) == IF IsNdarray(value) THEN value.data ELSE <<value>>

FormatStrings(num_format, value) ==
    [i \in 1..Len(ElementsOf(value)) |->
        get_format_string(num_format, ElementsOf(value)[i])]

FormattedElements(num_format, value) ==
    [i \in 1..Len(ElementsOf(value)) |->
        StrFormat(get_format_string(num_format, ElementsOf(value)[i]),
                  ElementsOf(value)[i])]

CommaSpace == <<",", " ">>

\* the rows of a two-axis array, each in brackets
FormatRows(texts, rows, cols) ==
    <<"[">>
        \o Join([i \in 1..rows |->
                    <<"[">> \o Join(SubSeq(texts, (i - 1) * cols + 1, i * cols),
                                    CommaSpace) \o <<"]">>],
                CommaSpace)
        \o <<"]">>

\* formatted_num
FormattedNum(num_format, value) ==
    IF ~IsNdarray(value) THEN FormattedElements(num_format, value)[1]
    ELSE IF Len(value.shape) > 1
         THEN FormatRows(FormattedElements(num_format, value),
                         value.shape[1], value.shape[2])
    ELSE <<"[">> \o Join(FormattedElements(num_format, value), CommaSpace)
             \o <<"]">>

\* " \\u{22C5} ", the text joined between the parts of a unit
TypstSeparator == <<" ", "\\", "u", "{", "2", "2", "C", "5", "}", " ">>

SuperOpen == <<"#", "s", "u", "p", "e", "r", "[">>

\* one part of the unit: base#super[exp] when the pattern matches with an
\* exponent, else the part as it is
FormatPart(part) ==
    IF PatternMatch(part).ok /\ PatternMatch(part).exp # <<>>
    THEN PatternMatch(part).name \o SuperOpen \o PatternMatch(part).exp
             \o <<"]">>
    ELSE part

FormatUnit(unit) ==
    Join([i \in 1..Len(Split(unit)) |-> FormatPart(Split(unit)[i])],
         TypstSeparator)

FormatJoined_Glued(formatted_num, format_unit) == formatted_num \o format_unit

\* return f"{formatted_num} {format_unit}", or the number alone
FormatJoined(formatted_num, format_unit) ==
    IF format_unit # <<>> THEN formatted_num \o <<" ">> \o format_unit
    ELSE formatted_num

\* Quantity.format(num_format) on the contents of self
Quantity_format(self, num_format) ==
    FormatJoined(FormattedNum(num_format, self.value), FormatUnit(self.unit))

(***************************************************************************)
(* Inputs                                                                  *)
(***************************************************************************)

\* most words of a generated unit expression
MaxWords == 2

\* most additions and subtractions in one chain
MaxOps == 2

SP == <<" ">>

\* words of the unit expressions given to conv and valid: a known symbol, a
\* malformed word, an unknown symbol, and exponents whose scale power leaves
\* the float range upwards ("km10000") and downwards ("mm200")
PairWords ==
    { <<"k","m">>, <<"2","m">>, <<"f","o","o">>,
      <<"k","m","1","0","0","0","0">>, <<"m","m","2","0","0">> }

\* further words for parse_unit and invert_unit: exponent spellings, a
\* table key with an underscore, a dangling sign
TextWords ==
    PairWords \cup
    { <<"m">>, <<"s">>, <<"m","1">>, <<"m","-","1">>, <<"m","0">>, <<"m","+","2">>,
      <<"m","0","2">>, <<"m","-","0">>, <<"s","-","2">>, <<"m","-">>,
      <<"f","t","_","l","b","f">>, <<"k","m","-","2","0","0">> }

WordSeqs(ws, n) == UNION {[1..k -> ws] : k \in 0..n}

\* the unit expressions of the tests and the specification's scenarios
NamedUnits ==
    { <<"m">>, <<"g">>, <<"k","g">>, <<"N">>, <<"P","a">>,
      <<"k","g">> \o SP \o <<"m">> \o SP \o <<"s","-","2">>,
      <<"N">> \o SP \o <<"m","-","2">>,
      <<"k","g">> \o SP \o <<"m","2">> \o SP \o <<"s","-","2">> \o SP
          \o <<"m","m","-","1">>,
      <<"k","m","1","0","0">> \o SP \o <<"k","m","1","0","0">> }

PairUnits == {Join(ws, SP) : ws \in WordSeqs(PairWords, MaxWords)} \cup NamedUnits

\* the same word sequences written with single or double spaces, bare or
\* padded with a space on both sides
TextUnits ==
    {pad \o Join(ws, sep) \o pad :
        ws \in WordSeqs(TextWords, MaxWords),
        sep \in {SP, SP \o SP}, pad \in {<<>>, SP}} \cup NamedUnits

Thousand == Single(Pow10(3), 1)

Values == {Zero, One, Thousand}

QuantityValues == {One, Thousand}

QuantityUnits ==
    { <<>>, <<"m">>, <<"k","m">>, <<"s">>, <<"2","m">>, <<"f","o","o">>,
      <<"k","m","1","0","0","0","0">>, <<"m","m","2","0","0">>,
      <<"m","2","0","0">>,
      <<"k","m","1","0","0">> \o SP \o <<"k","m","1","0","0">> }

Two == Single((2 :> 1), 1)
Five == Single((5 :> 1), 1)
Ten == Single(Pow10(1), 1)

\* values and units of the operands of mul, div and the reflected operations
ArithValues == {Zero, Two, Ten}

ArithUnits ==
    { <<>>, <<"m">>, <<"N">>, <<"s","2">>, <<"s","-","1">>,
      <<"k","g">> \o SP \o <<"m">>, <<"2","m">>, <<"f","o","o">>,
      SP \o <<"m">> }

\* plain numbers given to an operator
ArithNumbers == {Zero, Two}

\* most elements along the first axis of a generated array
MaxLen == 3

\* the i-th element of a generated array: 2, 4, 8, ...
Element(i) == Single(MonoPow((2 :> 1), i), 1)

\* arrays by shape: one axis of 0..MaxLen elements, two rows of two, and
\* rank 0
ArrayShapes == {<<n>> : n \in 0..MaxLen} \cup {<<2, 2>>, <<>>}
ArrayOfShape(shape) == [i \in 1..Product(shape) |-> Element(i)]

\* what a list literal can spell: rank 1 and above
ListShapes == {sh \in ArrayShapes : sh # <<>>}

ArrayUnits == { <<>>, <<"m">>, <<"k","m">>, <<"f","o","o">> }

\* keys of q[key]: integers inside and outside the array, and slices whose
\* parts are None or a value, the step also zero and negative
IntKeys == {IntKey(i) : i \in (0 - MaxLen - 1)..MaxLen}
SliceParts == {<<>>} \cup {<<i>> : i \in {0 - MaxLen - 1, -1, 0, 1, MaxLen}}
SliceSteps == {<<>>} \cup {<<i>> : i \in -2..2}
SliceKeys ==
    {SliceKey(a, b, c) : a \in SliceParts, b \in SliceParts, c \in SliceSteps}
Keys == IntKeys \cup SliceKeys

\* the values of test_format_magnitude, and 9999.95, just above the last
\* fixed-point value
FormatValues ==
    { Zero, Decimal(5, -2), Decimal(1, -1), Decimal(5, 0), Decimal(9999, -3),
      Decimal(1, 1), Decimal(9999, -2), Decimal(1, 2), Decimal(9999, -1),
      Decimal(1, 3), Decimal(99999, -1), Decimal(999995, -2), Decimal(1, 4),
      Decimal(-5, -2), Decimal(-5, 0) }

\* the units of test_format_units, the empty and the blank unit, a signed
\* exponent and a part the pattern does not match
FormatUnits ==
    { <<>>, SP, <<"m">>, <<"k","g">>, <<"m","2">>, <<"m","-","1">>,
      <<"k","g">> \o SP \o <<"m">> \o SP \o <<"s","-","2">>,
      <<"k","g">> \o SP \o <<"m","m","-","2">>,
      <<"m","+","2">>, <<"2","m">> \o SP \o <<"s">> }

\* num_format: none, or a precision and a type
NumFormats == { <<>>, <<".","4","f">>, <<".","0","f">>, <<".","2","E">> }

\* the values of the lists formatted: pairs of the following
PairValues ==
    { Zero, Decimal(5, -2), Decimal(5, 0), Decimal(1, 1), Decimal(1, 3),
      Decimal(99999, -1), Decimal(1, 4), Decimal(-5, 0) }

\* the right-hand operands of an operation on arrays: arrays whose shapes
\* do and do not broadcast with the left-hand ones, and a float, with units
\* compatible, incompatible, unknown and malformed
OperandShapes == {<<1>>, <<2>>, <<MaxLen>>, <<1, 2>>, <<2, 1>>, <<2, 2>>}

OperandUnits ==
    ArrayUnits \cup { <<"2","m">>, <<"s">>, <<"m","m","2","0","0">> }

\* the unit strings of the factors of a chain of products and quotients:
\* none, plain and compound units, and units whose scale is at the ends of
\* the float range
ChainUnits ==
    { <<>>, <<"m">>, <<"k","m">>, <<"s","-","1">>,
      <<"k","g">> \o SP \o <<"m">> \o SP \o <<"s","-","2">>,
      <<"m","m","2","0","0">>, <<"k","m","1","0","0">> }

(***************************************************************************)
(* State: the Quantity a chain of additions has reached, the number of     *)
(* operations of the chain, and the last call with its outcome.            *)
(***************************************************************************)

VARIABLES acc, nops, last

\* the right-hand (for a reflected operation, left-hand) operand of the last
\* arithmetic call; the array buffers; the array the caller gave a constructor
VARIABLES operand, heap, arr

vars == <<acc, nops, last, operand, heap, arr>>

\* what the calls on scalars and unit strings leave alone
others == <<operand, heap, arr>>

NoQuantity == Quantity(Zero, <<>>)

\* operands of an arithmetic operator by what isinstance tells apart
AsQuantity(q) == [kind |-> "Quantity", q |-> q, x |-> Zero]
AsNumber(x) == [kind |-> "number", q |-> NoQuantity, x |-> x]
OtherObject == [kind |-> "object", q |-> NoQuantity, x |-> Zero]

NoArray == [k |-> "none", buf |-> 0, shape |-> <<>>, pos |-> <<>>]

Call(op, x, a, b, self, other, out) ==
    [op |-> op, x |-> x, a |-> a, b |-> b, self |-> self, other |-> other,
     out |-> out]

Init ==
    /\ acc = Quantity(One, <<>>)
    /\ nops = 0
    /\ last = Call("none", Zero, <<>>, <<>>, NoQuantity, NoQuantity,
                   Return(<<>>))
    /\ operand = OtherObject
    /\ heap = <<>>
    /\ arr = NoArray

\* nothing has been called yet: each run makes one call of a function of
\* core.py, or builds one Quantity and runs one chain on it
Idle == last.op = "none"

\* a Quantity has been built
InChain == last.op \in {"Quantity", "add", "sub"}

DoParse ==
    /\ Idle
    /\ \E u \in TextUnits :
        /\ last' = Call("parse_unit", Zero, u, <<>>, NoQuantity, NoQuantity,
                        parse_unit(u))
        /\ UNCHANGED <<acc, nops, others>>

DoConv ==
    /\ Idle
    /\ \E x \in Values, u \in PairUnits, v \in PairUnits :
        /\ last' = Call("conv", x, u, v, NoQuantity, NoQuantity, conv(x, u, v))
        /\ UNCHANGED <<acc, nops, others>>

DoValid ==
    /\ Idle
    /\ \E u \in PairUnits, v \in PairUnits :
        /\ last' = Call("valid", Zero, u, v, NoQuantity, NoQuantity,
                        valid(u, v))
        /\ UNCHANGED <<acc, nops, others>>

DoInvert ==
    /\ Idle
    /\ \E u \in TextUnits :
        /\ last' = Call("invert_unit", Zero, u, <<>>, NoQuantity, NoQuantity,
                        invert_unit(u))
        /\ UNCHANGED <<acc, nops, others>>

\* invert_unit applied to the text the last invert_unit returned; a keeps
\* the original expression, b the intermediate one
DoInvertAgain ==
    /\ last.op = "invert_unit"
    /\ last.out.st = "ok"
    /\ last' = Call("invert_invert", Zero, last.a, last.out.val, NoQuantity,
                    NoQuantity, invert_unit(last.out.val))
    /\ UNCHANGED <<acc, nops, others>>

\* parse_unit called a second time with the arguments of the last call
DoParseAgain ==
    /\ last.op = "parse_unit"
    /\ last' = Call("parse_unit_again", Zero, last.a, <<>>, NoQuantity,
                    NoQuantity, parse_unit(last.a))
    /\ UNCHANGED <<acc, nops, others>>

\* conv(1.0, u, v)
DoConvUnits ==
    /\ Idle
    /\ \E u \in PairUnits, v \in PairUnits :
        /\ last' = Call("conv", One, u, v, NoQuantity, NoQuantity,
                        conv(One, u, v))
        /\ UNCHANGED <<acc, nops, others>>

\* conv called a second time with the arguments of the last call
DoConvAgain ==
    /\ last.op = "conv"
    /\ last' = Call("conv_again", last.x, last.a, last.b, NoQuantity,
                    NoQuantity, conv(last.x, last.a, last.b))
    /\ UNCHANGED <<acc, nops, others>>

\* q = Quantity(x, u)
DoNew ==
    /\ Idle
    /\ \E x \in QuantityValues, u \in QuantityUnits :
        /\ acc' = Quantity(x, u)
        /\ nops' = 0
        /\ last' = Call("Quantity", x, u, <<>>, NoQuantity, NoQuantity,
                        Return(Quantity(x, u)))
        /\ UNCHANGED others

\* q keeps the result of q op other; an exception leaves q as it was
ChainStep(op, other, out) ==
    /\ nops' = nops + 1
    /\ acc' = IF out.st = "ok" THEN out.val ELSE acc
    /\ last' = Call(op, Zero, <<>>, <<>>, acc, other, out)
    /\ UNCHANGED others

\* q = q + Quantity(x, u)
DoAdd ==
    /\ InChain
    /\ nops < MaxOps
    /\ \E x \in QuantityValues, u \in QuantityUnits :
        ChainStep("add", Quantity(x, u), Quantity_add(acc, Quantity(x, u)))

\* q = q - Quantity(x, u)
DoSub ==
    /\ InChain
    /\ nops < MaxOps
    /\ \E x \in QuantityValues, u \in QuantityUnits :
        ChainStep("sub", Quantity(x, u), Quantity_sub(acc, Quantity(x, u)))

\* q.to(u) on a Quantity just built
DoTo ==
    /\ last.op = "Quantity"
    /\ \E u \in QuantityUnits :
        /\ last' = Call("to", Zero, u, <<>>, acc, NoQuantity,
                        Quantity_to(acc, u))
        /\ UNCHANGED <<acc, nops, others>>

\* q = Quantity(x, u), the left operand of one arithmetic operation
DoNewArith ==
    /\ Idle
    /\ \E x \in ArithValues, u \in ArithUnits :
        /\ acc' = Quantity(x, u)
        /\ nops' = 0
        /\ last' = Call("Quantity", x, u, <<>>, NoQuantity, NoQuantity,
                        Return(Quantity(x, u)))
        /\ UNCHANGED others

\* everything an operator can be given: a Quantity, a plain number, or an
\* object of another kind
Operands ==
    {AsQuantity(Quantity(x, u)) : x \in ArithValues, u \in ArithUnits}
        \cup {AsNumber(x) : x \in ArithNumbers} \cup {OtherObject}

\* one operator applied to q and o; q itself is not rebound
Arith(op, o, out) ==
    /\ last' = Call(op, o.x, <<>>, <<>>, acc, o.q, out)
    /\ operand' = o
    /\ UNCHANGED <<acc, nops, heap, arr>>

\* q.__add__(o)
DoAddOperand ==
    /\ last.op = "Quantity"
    /\ \E o \in Operands : Arith("__add__", o, Quantity___add__(acc, o))

\* q.__sub__(o)
DoSubOperand ==
    /\ last.op = "Quantity"
    /\ \E o \in Operands : Arith("__sub__", o, Quantity___sub__(acc, o))

\* q.__mul__(o)
DoMul ==
    /\ last.op = "Quantity"
    /\ \E o \in Operands : Arith("__mul__", o, Quantity___mul__(acc, o))

\* q.__rmul__(o)
DoRmul ==
    /\ last.op = "Quantity"
    /\ \E o \in Operands : Arith("__rmul__", o, Quantity___rmul__(acc, o))

\* q.__truediv__(o)
DoTruediv ==
    /\ last.op = "Quantity"
    /\ \E o \in Operands :
        Arith("__truediv__", o, Quantity___truediv__(acc, o))

\* q.__rtruediv__(o)
DoRtruediv ==
    /\ last.op = "Quantity"
    /\ \E o \in Operands :
        Arith("__rtruediv__", o, Quantity___rtruediv__(acc, o))

\* a = np.array(data), the caller's own array
DoCallerArray ==
    /\ Idle
    /\ \E sh \in ArrayShapes :
        /\ heap' = HeapAlloc(heap, ArrayOfShape(sh))
        /\ arr' = NewArray(heap, sh, ArrayOfShape(sh))
        /\ last' = Call("np.array", Zero, <<>>, <<>>, NoQuantity, NoQuantity,
                        Return(<<>>))
        /\ UNCHANGED <<acc, nops, operand>>

\* q = Quantity(a, u) on the caller's array
DoNewFromArray ==
    /\ last.op = "np.array"
    /\ \E u \in ArrayUnits :
        /\ acc' = Quantity___init__(heap, arr, u)
        /\ heap' = InitHeap(heap, arr)
        /\ last' = Call("Quantity", Zero, u, <<>>, NoQuantity, NoQuantity,
                        Return(Quantity___init__(heap, arr, u)))
        /\ UNCHANGED <<nops, operand, arr>>

\* q = Quantity([...], u) on a list literal
DoNewFromList ==
    /\ Idle
    /\ \E sh \in ListShapes, u \in ArrayUnits :
        /\ acc' = Quantity___init__(heap, ListValue(sh, ArrayOfShape(sh)), u)
        /\ heap' = InitHeap(heap, ListValue(sh, ArrayOfShape(sh)))
        /\ last' = Call("Quantity", Zero, u, <<>>, NoQuantity, NoQuantity,
                Return(Quantity___init__(heap,
                           ListValue(sh, ArrayOfShape(sh)), u)))
        /\ UNCHANGED <<nops, operand, arr>>

\* one operation on q: self keeps what q held before the call, out the
\* result with its array, if it has one, on the heap
ArrayOp(op, x, a, out) ==
    /\ last' = Call(op, x, a, <<>>, Deref(heap, acc), NoQuantity,
                    ResultStored(heap, out))
    /\ heap' = ResultHeap(heap, out)
    /\ UNCHANGED <<acc, nops, operand, arr>>

\* q[key]
DoGetitem ==
    /\ last.op = "Quantity"
    /\ \E key \in Keys :
        ArrayOp("__getitem__", Zero, key, Quantity___getitem__(heap, acc, key))

\* q.to(u) on an array or a scalar
DoToArray ==
    /\ last.op = "Quantity"
    /\ \E u \in ArrayUnits :
        ArrayOp("to", Zero, u, Quantity_to(Deref(heap, acc), u))

\* q * x, x * q, q / x and x / q for a number x
DoScale ==
    /\ last.op = "Quantity"
    /\ \E x \in ArithNumbers :
        \/ ArrayOp("__mul__", x, <<>>,
                   Quantity___mul__(Deref(heap, acc), AsNumber(x)))
        \/ ArrayOp("__rmul__", x, <<>>,
                   Quantity___rmul__(Deref(heap, acc), AsNumber(x)))
        \/ ArrayOp("__truediv__", x, <<>>,
                   Quantity___truediv__(Deref(heap, acc), AsNumber(x)))
        \/ ArrayOp("__rtruediv__", x, <<>>,
                   Quantity___rtruediv__(Deref(heap, acc), AsNumber(x)))

ArrayOps ==
    {"__getitem__", "to", "__mul__", "__rmul__", "__truediv__", "__rtruediv__"}

\* the Quantity the last operation returned, if it returned one
ResultQuantity ==
    IF last.op \in ArrayOps /\ last.out.st = "ok" THEN last.out.val
    ELSE NoQuantity

\* the arrays a caller holds: its own array, q.value, and the value of the
\* last result
HandleOf(name) ==
    IF name = "a" THEN arr
    ELSE IF name = "q" THEN acc.value
    ELSE ResultQuantity.value

\* the caller stores 0 in element j of one of its arrays; a names the array,
\* self, other and b keep what q, the result and the caller's array held
\* before, out the result
WriteElement(name, j) ==
    /\ heap' = [heap EXCEPT ![HandleOf(name).buf][HandleOf(name).pos[j]] = Zero]
    /\ last' = Call("write", Zero, name, Contents(heap, arr),
                    Deref(heap, acc), Deref(heap, ResultQuantity),
                    Return(ResultQuantity))
    /\ UNCHANGED <<acc, nops, operand, arr>>

DoWrite ==
    /\ last.op \in ArrayOps \cup {"Quantity"}
    /\ \E name \in {"a", "q", "r"} :
        /\ HandleOf(name).k = "arr"
        /\ \E j \in 1..Len(HandleOf(name).pos) : WriteElement(name, j)

NextArray ==
    \/ DoNewArith
    \/ DoCallerArray
    \/ DoNewFromArray
    \/ DoNewFromList
    \/ DoGetitem
    \/ DoToArray
    \/ DoScale
    \/ DoWrite

\* one operation on an array or scalar Quantity, then one write by the caller
SpecArray == Init /\ [][NextArray]_vars

\* q = Quantity(x, u) for the formatter
DoNewFormat ==
    /\ Idle
    /\ \E x \in FormatValues, u \in FormatUnits :
        /\ acc' = Quantity___init__(heap, x, u)
        /\ last' = Call("Quantity", x, u, <<>>, NoQuantity, NoQuantity,
                        Return(Quantity___init__(heap, x, u)))
        /\ UNCHANGED <<nops, operand, heap, arr>>

\* q = Quantity([x, y], u) or Quantity([[x, y], [y, x]], u)
DoNewFormatList ==
    /\ Idle
    /\ \E x \in PairValues, y \in PairValues, u \in FormatUnits :
        \E l \in {ListValue(<<2>>, <<x, y>>),
                  ListValue(<<2, 2>>, <<x, y, y, x>>)} :
            /\ acc' = Quantity___init__(heap, l, u)
            /\ heap' = InitHeap(heap, l)
            /\ last' = Call("Quantity", Zero, u, <<>>, NoQuantity, NoQuantity,
                            Return(Quantity___init__(heap, l, u)))
            /\ UNCHANGED <<nops, operand, arr>>

\* q.format(num_format): b keeps the format string of each element
DoFormat ==
    /\ last.op = "Quantity"
    /\ \E num_format \in NumFormats :
        /\ last' = Call("format", Zero, num_format,
                        FormatStrings(num_format, Deref(heap, acc).value),
                        Deref(heap, acc), NoQuantity,
                        Return(Quantity_format(Deref(heap, acc), num_format)))
        /\ UNCHANGED <<acc, nops, operand, heap, arr>>

NextFormat ==
    \/ DoNewFormat
    \/ DoNewFormatList
    \/ DoFormat

\* one Quantity built and formatted
SpecFormat == Init /\ [][NextFormat]_vars

\* q = Quantity([...], u), the left-hand operand of an operation on arrays
DoNewOperandArray ==
    /\ Idle
    /\ \E sh \in ListShapes, u \in OperandUnits :
        /\ acc' = Quantity___init__(heap, ListValue(sh, ArrayOfShape(sh)), u)
        /\ heap' = InitHeap(heap, ListValue(sh, ArrayOfShape(sh)))
        /\ last' = Call("Quantity", Zero, u, <<>>, NoQuantity, NoQuantity,
                Return(Quantity___init__(heap,
                           ListValue(sh, ArrayOfShape(sh)), u)))
        /\ UNCHANGED <<nops, operand, arr>>

\* every right-hand operand of an operation on arrays
ArrayOperands ==
    {AsQuantity(Quantity(ArrayData(sh, ArrayOfShape(sh)), u)) :
        sh \in OperandShapes, u \in OperandUnits}
    \cup {AsQuantity(Quantity(Two, u)) : u \in OperandUnits}

\* one operator applied to q and a Quantity o; self keeps what q held, out
\* the result with its array, if it has one, on the heap
ArrayArith(op, o, out) ==
    /\ last' = Call(op, Zero, <<>>, <<>>, Deref(heap, acc), o.q,
                    ResultStored(heap, out))
    /\ heap' = ResultHeap(heap, out)
    /\ operand' = o
    /\ UNCHANGED <<acc, nops, arr>>

\* q + o
DoAddArrays ==
    /\ last.op = "Quantity"
    /\ \E o \in ArrayOperands :
        ArrayArith("__add__", o, Quantity___add__(Deref(heap, acc), o))

\* q - o
DoSubArrays ==
    /\ last.op = "Quantity"
    /\ \E o \in ArrayOperands :
        ArrayArith("__sub__", o, Quantity___sub__(Deref(heap, acc), o))

\* q * o
DoMulArrays ==
    /\ last.op = "Quantity"
    /\ \E o \in ArrayOperands :
        ArrayArith("__mul__", o, Quantity___mul__(Deref(heap, acc), o))

\* q / o
DoDivArrays ==
    /\ last.op = "Quantity"
    /\ \E o \in ArrayOperands :
        ArrayArith("__truediv__", o, Quantity___truediv__(Deref(heap, acc), o))

\* p.to(u) on the product p = q * o just computed
DoToProduct ==
    /\ last.op = "__mul__"
    /\ last.out.st = "ok"
    /\ \E u \in OperandUnits :
        /\ last' = Call("to", Zero, u, <<>>, Deref(heap, last.out.val),
                        NoQuantity,
                        ResultStored(heap,
                            Quantity_to(Deref(heap, last.out.val), u)))
        /\ heap' = ResultHeap(heap, Quantity_to(Deref(heap, last.out.val), u))
        /\ UNCHANGED <<acc, nops, operand, arr>>

NextBroadcast ==
    \/ DoNewArith
    \/ DoNewOperandArray
    \/ DoAddArrays
    \/ DoSubArrays
    \/ DoMulArrays
    \/ DoDivArrays
    \/ DoToProduct

\* one operation on two Quantities, arrays or floats, then a conversion of
\* a product
SpecBroadcast == Init /\ [][NextBroadcast]_vars

\* q = Quantity(2.0, u), the first factor of a chain
DoNewFactor ==
    /\ Idle
    /\ \E u \in ChainUnits :
        /\ acc' = Quantity(Two, u)
        /\ nops' = 0
        /\ last' = Call("Quantity", Two, u, <<>>, NoQuantity, NoQuantity,
                        Return(Quantity(Two, u)))
        /\ UNCHANGED others

\* the chain goes on from a Quantity just built or from a product or quotient
InFactorChain == last.op \in {"Quantity", "__mul__", "__truediv__"}

\* q keeps the result of q op other; an exception leaves q as it was
FactorStep(op, other, out) ==
    /\ nops' = nops + 1
    /\ acc' = IF out.st = "ok" THEN out.val ELSE acc
    /\ last' = Call(op, Zero, <<>>, <<>>, acc, other, out)
    /\ operand' = AsQuantity(other)
    /\ UNCHANGED <<heap, arr>>

\* q = q * Quantity(2.0, u)
DoMulChain ==
    /\ InFactorChain
    /\ nops < MaxOps
    /\ \E u \in ChainUnits :
        FactorStep("__mul__", Quantity(Two, u),
                   Quantity___mul__(acc, AsQuantity(Quantity(Two, u))))

\* q = q / Quantity(2.0, u)
DoDivChain ==
    /\ InFactorChain
    /\ nops < MaxOps
    /\ \E u \in ChainUnits :
        FactorStep("__truediv__", Quantity(Two, u),
                   Quantity___truediv__(acc, AsQuantity(Quantity(Two, u))))

\* (a / b) * b: the quotient just computed multiplied by its divisor; a
\* keeps the unit of the dividend
DoMulBack ==
    /\ last.op = "__truediv__"
    /\ last.out.st = "ok"
    /\ last' = Call("div_mul", Zero, last.self.unit, <<>>, acc, operand.q,
                    Quantity___mul__(acc, operand))
    /\ acc' = IF Quantity___mul__(acc, operand).st = "ok"
              THEN Quantity___mul__(acc, operand).val ELSE acc
    /\ UNCHANGED <<nops, operand, heap, arr>>

NextUnits ==
    \/ DoNewFactor
    \/ DoMulChain
    \/ DoDivChain
    \/ DoMulBack

\* chains of products and quotients of Quantities
SpecUnits == Init /\ [][NextUnits]_vars

NextArith ==
    \/ DoNewArith
    \/ DoAddOperand
    \/ DoSubOperand
    \/ DoMul
    \/ DoRmul
    \/ DoTruediv
    \/ DoRtruediv

\* one arithmetic operation on two operands
SpecArith == Init /\ [][NextArith]_vars

Next ==
    \/ DoParse
    \/ DoConv
    \/ DoValid
    \/ DoInvert
    \/ DoInvertAgain
    \/ DoNew
    \/ DoAdd
    \/ DoSub
    \/ DoTo

Spec == Init /\ [][Next]_vars

\* the keys of the Unit Table
TableKeys == {UNIT_DB_ITEMS[i].key : i \in 1..Len(UNIT_DB_ITEMS)}

\* parse_unit(k) for a key k of the table
DoParseKey ==
    /\ Idle
    /\ \E k \in TableKeys :
        /\ last' = Call("parse_unit", Zero, k, <<>>, NoQuantity, NoQuantity,
                        parse_unit(k))
        /\ UNCHANGED <<acc, nops, others>>

\* conv(1.0, k, k) for a key k of the table
DoConvKey ==
    /\ Idle
    /\ \E k \in TableKeys :
        /\ last' = Call("conv", One, k, k, NoQuantity, NoQuantity,
                        conv(One, k, k))
        /\ UNCHANGED <<acc, nops, others>>

\* valid(k, l) for two keys of the table
DoValidKeys ==
    /\ Idle
    /\ \E k \in TableKeys, l \in TableKeys :
        /\ last' = Call("valid", Zero, k, l, NoQuantity, NoQuantity,
                        valid(k, l))
        /\ UNCHANGED <<acc, nops, others>>

NextTable ==
    \/ DoParseKey
    \/ DoConvKey
    \/ DoValidKeys

\* the functions of core.py called on the keys of the Unit Table
SpecTable == Init /\ [][NextTable]_vars

NextOrder ==
    \/ DoParse
    \/ DoConvUnits
    \/ DoParseAgain
    \/ DoConvAgain

\* calls of parse_unit and conv, each made once or twice
SpecOrder == Init /\ [][NextOrder]_vars

(***************************************************************************)
(* Properties                                                              *)
(***************************************************************************)

\* the failure kinds of the specification, as the code raises them
IsInvalidToken(out) == out.st = "ValueError" /\ out.msg = MsgInvalidToken
IsUnknownUnit(out) == out.st = "ValueError" /\ out.msg = MsgUnknownUnit
IsIncompatibleUnits(out) ==
    /\ out.st = "ValueError"
    /\ out.msg \in {MsgIncompatible, MsgIncompatibleAdd, MsgIncompatibleSub}

Tokens(u) == Split(u)

\* some word of u is outside the symbol[exponent] grammar
SomeWordMalformed(u) ==
    \E i \in 1..Len(Tokens(u)) : ~PatternMatch(Tokens(u)[i]).ok

\* some word of u is well formed and names a symbol absent from the table
SomeSymbolAbsent(u) ==
    \E i \in 1..Len(Tokens(u)) :
        /\ PatternMatch(Tokens(u)[i]).ok
        /\ ~InUnitDB(PatternMatch(Tokens(u)[i]).name)

U_g == <<"g">>
U_kg == <<"k","g">>
U_kg_m_s2 == <<"k","g">> \o SP \o <<"m">> \o SP \o <<"s","-","2">>
U_kg_m2_s2_mm1 ==
    <<"k","g">> \o SP \o <<"m","2">> \o SP \o <<"s","-","2">> \o SP
        \o <<"m","m","-","1">>

\* C1: the Unit Table holds one definition per symbol and "g" is the gram
\* (scale 1e-3, dims {M: 1}): valid("g", "kg") returns True and
\* conv(1000, "g", "kg") returns 1.
C1_GramIsMass ==
    /\ (last.op = "valid" /\ last.a = U_g /\ last.b = U_kg) =>
           /\ \A i, j \in 1..Len(UNIT_DB_ITEMS) :
                  UNIT_DB_ITEMS[i].key = UNIT_DB_ITEMS[j].key => i = j
           /\ UNIT_DB(U_g).scale = Single(Pow10(-3), 1)
           /\ UNIT_DB(U_g).dims = ("M" :> 1)
           /\ last.out.st = "ok"
           /\ last.out.val = TRUE
    /\ (last.op = "conv" /\ last.x = Thousand /\ last.a = U_g
            /\ last.b = U_kg) =>
           /\ last.out.st = "ok"
           /\ last.out.val = One

\* C2: valid is total: every call returns True or False and raises nothing.
C2_ValidTotal ==
    last.op = "valid" => (last.out.st = "ok" /\ last.out.val \in BOOLEAN)

\* C3: valid(a, b) and valid(b, a) have the same outcome, and when a or b is
\* malformed or unknown both return False.
C3_ValidSymmetric ==
    last.op = "valid" =>
        LET swapped == valid(last.b, last.a)
            bad(u)  == SomeWordMalformed(u) \/ SomeSymbolAbsent(u)
        IN  /\ swapped.st = last.out.st
            /\ last.out.st = "ok" => swapped.val = last.out.val
            /\ (bad(last.a) \/ bad(last.b)) =>
                   /\ last.out.st = "ok" /\ last.out.val = FALSE
                   /\ swapped.st = "ok" /\ swapped.val = FALSE

\* C4: when both unit strings parse, conv fails with IncompatibleUnits iff
\* the parsed dimension maps differ, and otherwise returns value times
\* from.scale / to.scale; 1 "kg m s-2" is 0.001 "kg m2 s-2 mm-1".
C4_ConvContract ==
    last.op = "conv" =>
        LET c_from == parse_unit(last.a)
            c_to   == parse_unit(last.b)
        IN  (c_from.st = "ok" /\ c_to.st = "ok") =>
                /\ IsIncompatibleUnits(last.out)
                       <=> c_from.val.dims # c_to.val.dims
                /\ c_from.val.dims = c_to.val.dims =>
                       LET ratio == FDiv(c_from.val.scale, c_to.val.scale)
                       IN  /\ ratio.st = "ok"
                           /\ last.out.st = "ok"
                           /\ last.out.val = FMul(last.x, ratio.val)
                /\ (last.x = One /\ last.a = U_kg_m_s2
                        /\ last.b = U_kg_m2_s2_mm1) =>
                       /\ last.out.st = "ok"
                       /\ last.out.val = Single(Pow10(-3), 1)

BaseDims == {"M", "L", "T"}

TokenDef(tok) == UNIT_DB(PatternMatch(tok).name)
TokenExp(tok) == Exponent(PatternMatch(tok))

\* def[sym].scale ^ exponent multiplied over the first n tokens, from the left
RECURSIVE ProductScale(_, _)
ProductScale(toks, n) ==
    IF n = 0 THEN One
    ELSE FMul(ProductScale(toks, n - 1),
              FPow(TokenDef(toks[n]).scale, TokenExp(toks[n])).val)

\* def[sym].dims[d] * exponent summed over the first n tokens
RECURSIVE SumDim(_, _, _)
SumDim(toks, n, d) ==
    IF n = 0 THEN 0
    ELSE SumDim(toks, n - 1, d)
         + (IF d \in DOMAIN TokenDef(toks[n]).dims
            THEN TokenDef(toks[n]).dims[d] * TokenExp(toks[n]) ELSE 0)

\* C5: an accepted expression's CanonicalUnit has the product of the tokens'
\* scale powers as scale and the sum of the tokens' dimension exponents as
\* dims, dims holds no zero exponent, and the empty expression gives scale 1
\* and empty dims.
C5_CanonicalForm ==
    (last.op = "parse_unit" /\ last.out.st = "ok") =>
        LET toks == Tokens(last.a)
            cu   == last.out.val
        IN  /\ cu.scale = ProductScale(toks, Len(toks))
            /\ DOMAIN cu.dims \subseteq BaseDims
            /\ \A d \in BaseDims :
                   (IF d \in DOMAIN cu.dims THEN cu.dims[d] ELSE 0)
                       = SumDim(toks, Len(toks), d)
            /\ \A d \in DOMAIN cu.dims : cu.dims[d] # 0
            /\ toks = <<>> => (cu.scale = One /\ cu.dims = EmptyDims)

\* two tokens with non-zero exponents that cancel, such as "km m-1"
C5_Witness ==
    /\ last.op = "parse_unit"
    /\ last.out.st = "ok"
    /\ Len(Tokens(last.a)) = 2
    /\ TokenExp(Tokens(last.a)[1]) # 0
    /\ last.out.val.dims = EmptyDims
    /\ last.out.val.scale # One

\* what the token loop does with one word
WordStatus(tok) ==
    IF ~PatternMatch(tok).ok THEN "invalid"
    ELSE IF ~InUnitDB(PatternMatch(tok).name) THEN "unknown"
    ELSE IF FPow(TokenDef(tok).scale, TokenExp(tok)).st # "ok" THEN "overflow"
    ELSE "ok"

\* index of the first word the loop fails on, 0 when there is none
FirstFailing(toks) ==
    IF \A i \in 1..Len(toks) : WordStatus(toks[i]) = "ok" THEN 0
    ELSE CHOOSE i \in 1..Len(toks) :
             /\ WordStatus(toks[i]) # "ok"
             /\ \A j \in 1..(i - 1) : WordStatus(toks[j]) = "ok"

\* C6 as claimed: parse_unit fails with InvalidToken whenever some word is
\* outside the grammar, with UnknownUnit whenever every word matches and some
\* symbol is absent, and succeeds otherwise.
C6_FailureKinds ==
    last.op = "parse_unit" =>
        IF SomeWordMalformed(last.a) THEN IsInvalidToken(last.out)
        ELSE IF SomeSymbolAbsent(last.a) THEN IsUnknownUnit(last.out)
        ELSE last.out.st = "ok"

\* C6 amended: parse_unit stops at the first word, left to right, that it
\* fails on: InvalidToken for a word outside the grammar, UnknownUnit for a
\* well-formed word with an absent symbol (OverflowError for a scale power
\* above the float range); it succeeds when it fails on no word.
C6_FirstOffendingWord ==
    last.op = "parse_unit" =>
        LET toks == Tokens(last.a)
            i    == FirstFailing(toks)
        IN  IF i = 0 THEN last.out.st = "ok"
            ELSE IF WordStatus(toks[i]) = "invalid"
                 THEN IsInvalidToken(last.out)
            ELSE IF WordStatus(toks[i]) = "unknown"
                 THEN IsUnknownUnit(last.out)
            ELSE last.out.st = "OverflowError"

\* an unknown symbol before a malformed word, such as "foo 2m"
C6_Witness ==
    /\ last.op = "parse_unit"
    /\ Len(Tokens(last.a)) = 2
    /\ WordStatus(Tokens(last.a)[1]) = "unknown"
    /\ WordStatus(Tokens(last.a)[2]) = "invalid"
    /\ IsUnknownUnit(last.out)

\* C7: for every u that parse_unit accepts and every finite x, conv(x, u, u)
\* succeeds and returns exactly x.
C7_IdentityConversion ==
    (last.op = "conv" /\ last.a = last.b /\ parse_unit(last.a).st = "ok") =>
        (last.out.st = "ok" /\ last.out.val = last.x)

\* C8 as claimed: invert_unit(invert_unit(u)) has the tokens of u in order,
\* each identical to the original unless the original's exponent is an
\* explicit 1, which may be dropped; and it is compatible with u when u
\* parses.
C8_DoubleInversionText ==
    last.op = "invert_invert" =>
        /\ last.out.st = "ok"
        /\ LET t == Tokens(last.a)
               r == Tokens(last.out.val)
           IN  /\ Len(r) = Len(t)
               /\ \A i \in 1..Len(t) :
                      \/ r[i] = t[i]
                      \/ /\ TokenExp(t[i]) = 1
                         /\ r[i] = PatternMatch(t[i]).name
        /\ parse_unit(last.a).st = "ok" =>
               (valid(last.a, last.out.val).st = "ok"
                   /\ valid(last.a, last.out.val).val = TRUE)

\* C8 amended: invert_unit(invert_unit(u)) has the symbols of u in order and
\* each token's exponent has the same integer value, written as str() of
\* that integer (no "+", no leading zeros) and dropped when it is 1; and it
\* is compatible with u when u parses.
C8_DoubleInversionValue ==
    last.op = "invert_invert" =>
        /\ last.out.st = "ok"
        /\ LET t == Tokens(last.a)
               r == Tokens(last.out.val)
           IN  /\ Len(r) = Len(t)
               /\ \A i \in 1..Len(t) :
                      /\ PatternMatch(r[i]).ok
                      /\ PatternMatch(r[i]).name = PatternMatch(t[i]).name
                      /\ TokenExp(r[i]) = TokenExp(t[i])
                      /\ r[i] = PatternMatch(t[i]).name \o
                                (IF TokenExp(t[i]) = 1 THEN <<>>
                                 ELSE IntToChars(TokenExp(t[i])))
        /\ parse_unit(last.a).st = "ok" =>
               (valid(last.a, last.out.val).st = "ok"
                   /\ valid(last.a, last.out.val).val = TRUE)

\* a double inversion of an expression that parses and spells an exponent
\* with a sign or a leading zero, such as "m+2"
C8_Witness ==
    /\ last.op = "invert_invert"
    /\ last.out.st = "ok"
    /\ parse_unit(last.a).st = "ok"
    /\ \E i \in 1..Len(Tokens(last.a)) :
           /\ TokenExp(Tokens(last.a)[i]) = 2
           /\ Tokens(last.out.val)[i] # Tokens(last.a)[i]

\* C9: invert_unit keeps symbols and order, negates each exponent (1 when
\* missing), writes the suffix except exactly when the negated exponent is
\* 1, joins with single spaces, fails with InvalidToken on a word outside
\* the grammar and never fails on a symbol absent from the table.
C9_InvertContract ==
    last.op = "invert_unit" =>
        IF SomeWordMalformed(last.a) THEN IsInvalidToken(last.out)
        ELSE /\ last.out.st = "ok"
             /\ LET t == Tokens(last.a)
                    r == Tokens(last.out.val)
                IN  /\ Len(r) = Len(t)
                    /\ last.out.val = Join(r, SP)
                    /\ \A i \in 1..Len(t) :
                           /\ PatternMatch(r[i]).ok
                           /\ PatternMatch(r[i]).name = PatternMatch(t[i]).name
                           /\ TokenExp(r[i]) = 0 - TokenExp(t[i])
                           /\ PatternMatch(r[i]).exp = <<>>
                                  <=> 0 - TokenExp(t[i]) = 1

\* an inversion of an unknown symbol next to an exponent -1, such as
\* "foo m-1", written with more than single spaces
C9_Witness ==
    /\ last.op = "invert_unit"
    /\ last.out.st = "ok"
    /\ SomeSymbolAbsent(last.a)
    /\ last.a # Join(Tokens(last.a), SP)
    /\ \E i \in 1..Len(Tokens(last.a)) :
           /\ TokenExp(Tokens(last.a)[i]) = -1
           /\ PatternMatch(Tokens(last.out.val)[i]).exp = <<>>

\* C10: add and sub fail with IncompatibleUnits unless valid(self.unit,
\* other.unit); otherwise the result's value is self.value plus (minus)
\* conv(other.value, other.unit, self.unit) and its unit is self.unit, at
\* every step of a chain.
C10_AddSubContract ==
    last.op \in {"add", "sub"} =>
        LET compatible == valid(last.self.unit, last.other.unit)
            converted  == conv(last.other.value, last.other.unit,
                               last.self.unit)
        IN  IF compatible.st = "ok" /\ compatible.val = TRUE
            THEN /\ converted.st = "ok"
                 /\ last.out.st = "ok"
                 /\ last.out.val.unit = last.self.unit
                 /\ last.out.val.value =
                        IF last.op = "add"
                        THEN FAdd(last.self.value, converted.val)
                        ELSE FSub(last.self.value, converted.val)
            ELSE IsIncompatibleUnits(last.out)

\* r is s without its leading and trailing whitespace
IsStripOf(r, s) ==
    /\ r # <<>> => (r[1] \notin Whitespace /\ r[Len(r)] \notin Whitespace)
    /\ \E i, j \in 0..Len(s) :
           /\ i + j <= Len(s)
           /\ r = SubSeq(s, i + 1, Len(s) - j)
           /\ \A n \in 1..i : s[n] \in Whitespace
           /\ \A n \in (Len(s) - j + 1)..Len(s) : s[n] \in Whitespace

U_N == <<"N">>
U_m == <<"m">>
U_s2 == <<"s","2">>
U_kg_m == <<"k","g">> \o SP \o <<"m">>

MulOfQuantities == last.op = "__mul__" /\ operand.kind = "Quantity"
DivOfQuantities == last.op = "__truediv__" /\ operand.kind = "Quantity"

\* C11 as claimed: mul of two Quantities returns the product of the values
\* and the unit self.unit + " " + other.unit, for all operand units including
\* the empty one.
C11_MulConcatenates ==
    MulOfQuantities =>
        /\ last.out.st = "ok"
        /\ last.out.val.value = FMul(last.self.value, last.other.value)
        /\ last.out.val.unit = last.self.unit \o SP \o last.other.unit

\* C11 amended: mul of two Quantities returns the product of the values and
\* the unit self.unit + " " + other.unit with leading and trailing
\* whitespace removed (so an empty operand unit leaves the other unit
\* alone); the words of the result are those of self.unit followed by those
\* of other.unit, unchanged ("N" times "m" is "N m").
C11_MulConcatenatesStripped ==
    MulOfQuantities =>
        /\ last.out.st = "ok"
        /\ last.out.val.value = FMul(last.self.value, last.other.value)
        /\ IsStripOf(last.out.val.unit,
                     last.self.unit \o SP \o last.other.unit)
        /\ Tokens(last.out.val.unit)
               = Tokens(last.self.unit) \o Tokens(last.other.unit)
        /\ (last.self.unit = U_N /\ last.other.unit = U_m) =>
               last.out.val.unit = <<"N", " ", "m">>

\* a product of a dimensionless Quantity and one with a unit
C11_Witness ==
    /\ MulOfQuantities
    /\ last.self.unit = <<>>
    /\ last.other.unit = U_kg_m
    /\ last.out.val.unit = U_kg_m
    /\ last.out.val.value = Single((2 :> 2), 1)

C13_ReflectedScalar ==
    /\ (last.op = "__rmul__" /\ operand.kind = "number") =>
           /\ last.out.st = "ok"
           /\ last.out.val.value = FMul(last.x, last.self.value)
           /\ last.out.val.unit = last.self.unit
           /\ last.out = Quantity___mul__(last.self, operand)
    /\ (last.op = "__rtruediv__" /\ operand.kind = "number") =>
           IF IsZero(last.self.value)
           THEN last.out.st = "ZeroDivisionError"
           ELSE IF SomeWordMalformed(last.self.unit)
                THEN IsInvalidToken(last.out)
           ELSE /\ last.out.st = "ok"
                /\ last.out.val.value = FDiv(last.x, last.self.value).val
                /\ last.out.val.unit = invert_unit(last.self.unit).val

\* 2 / Quantity(10, "s-1") is 0.2 "s"
C13_Witness ==
    /\ last.op = "__rtruediv__"
    /\ operand.kind = "number"
    /\ last.x = Two
    /\ last.self = Quantity(Ten, <<"s","-","1">>)
    /\ last.out.st = "ok"
    /\ last.out.val = Quantity(Single((5 :> -1), 1), <<"s">>)

\* positions 0..n-1 counted from the end when negative
NormIndex(i, n) == IF i < 0 THEN i + n ELSE i

\* the positions a range start:stop:step selects among 0..n-1, read from
\* the meaning of a range: from start (default: the first position in the
\* direction of travel) up to, not including, stop, every step-th one
SelectedUp(key, n, lo) ==
    {i \in 0..(n - 1) :
        /\ i >= lo
        /\ key.stop # <<>> => i < NormIndex(key.stop[1], n)
        /\ (i - lo) % SliceStep(key) = 0}

SelectedDown(key, n, hi) ==
    {i \in 0..(n - 1) :
        /\ i <= hi
        /\ key.stop # <<>> => i > NormIndex(key.stop[1], n)
        /\ (hi - i) % (0 - SliceStep(key)) = 0}

Selected(key, n) ==
    IF SliceStep(key) > 0
    THEN SelectedUp(key, n,
             IF key.start = <<>> \/ NormIndex(key.start[1], n) < 0 THEN 0
             ELSE NormIndex(key.start[1], n))
    ELSE SelectedDown(key, n,
             IF key.start = <<>> \/ NormIndex(key.start[1], n) > n - 1
             THEN n - 1 ELSE NormIndex(key.start[1], n))

Ascending(S) ==
    [k \in 1..Cardinality(S) |->
        CHOOSE x \in S : Cardinality({y \in S : y < x}) = k - 1]

Descending(S) ==
    [k \in 1..Cardinality(S) |->
        CHOOSE x \in S : Cardinality({y \in S : y > x}) = k - 1]

\* the elements of row i (from 0) of array contents d, and of a list of rows
RowOf(d, i) ==
    SubSeq(d.data, i * Product(Tail(d.shape)) + 1,
           (i + 1) * Product(Tail(d.shape)))

RECURSIVE ConcatRows(_, _)
ConcatRows(d, rows) ==
    IF rows = <<>> THEN <<>>
    ELSE RowOf(d, Head(rows)) \o ConcatRows(d, Tail(rows))

IsFloat(v) == v.k \in {"fin", "inf", "nan"}

\* the last call is q[key] on an array with a first axis and a key that
\* names a position of it, or a range with a step other than zero
GetitemOnArray ==
    /\ last.op = "__getitem__"
    /\ IsNdarray(last.self.value)
    /\ last.self.value.shape # <<>>

IntKeyInRange ==
    /\ GetitemOnArray
    /\ last.a.kind = "int"
    /\ last.a.i >= 0 - last.self.value.shape[1]
    /\ last.a.i < last.self.value.shape[1]

RangeKey ==
    /\ GetitemOnArray
    /\ last.a.kind = "slice"
    /\ SliceStep(last.a) # 0

IndexOnScalarFails ==
    (last.op = "__getitem__" /\ ~IsNdarray(last.self.value)) =>
        (last.out.st = "TypeError" /\ last.out.msg = MsgNotArray)

\* the result of q[key] holds the rows of q listed in rows, with q's unit
ResultIsRows(shape, rows) ==
    /\ last.out.st = "ok"
    /\ last.out.val.unit = last.self.unit
    /\ Contents(heap, last.out.val.value)
           = ArrayData(shape, ConcatRows(last.self.value, rows))

\* C14 as claimed: indexing a scalar Quantity fails with TypeError; on an
\* array of any rank an integer key, negative counting from the end, gives
\* the scalar element at that position, and a range-with-step key gives the
\* selected sub-array in source order; the unit is the source unit.
C14_Index ==
    /\ IndexOnScalarFails
    /\ IntKeyInRange =>
           /\ last.out.st = "ok"
           /\ last.out.val.unit = last.self.unit
           /\ IsFloat(last.out.val.value)
           /\ last.out.val.value =
                  last.self.value.data[
                      NormIndex(last.a.i, last.self.value.shape[1]) + 1]
    /\ RangeKey =>
           ResultIsRows(
               <<Cardinality(Selected(last.a, last.self.value.shape[1]))>>
                   \o Tail(last.self.value.shape),
               Ascending(Selected(last.a, last.self.value.shape[1])))

\* C14 amended: indexing a scalar Quantity fails with TypeError; an integer
\* key within the first axis, negative counting from the end, gives the
\* scalar element on an array of rank 1 and the sub-array at that position
\* of the first axis on an array of higher rank; a range-with-step key with
\* a non-zero step gives the selected sub-array along the first axis, in
\* source order for a positive step and in reverse source order for a
\* negative step; the unit is the source unit.
C14_IndexFirstAxis ==
    /\ IndexOnScalarFails
    /\ (IntKeyInRange /\ Len(last.self.value.shape) = 1) =>
           /\ last.out.st = "ok"
           /\ last.out.val.unit = last.self.unit
           /\ IsFloat(last.out.val.value)
           /\ last.out.val.value =
                  last.self.value.data[
                      NormIndex(last.a.i, last.self.value.shape[1]) + 1]
    /\ (IntKeyInRange /\ Len(last.self.value.shape) > 1) =>
           ResultIsRows(Tail(last.self.value.shape),
               <<NormIndex(last.a.i, last.self.value.shape[1])>>)
    /\ RangeKey =>
           ResultIsRows(
               <<Cardinality(Selected(last.a, last.self.value.shape[1]))>>
                   \o Tail(last.self.value.shape),
               IF SliceStep(last.a) > 0
               THEN Ascending(Selected(last.a, last.self.value.shape[1]))
               ELSE Descending(Selected(last.a, last.self.value.shape[1])))

\* q[-1] on a Quantity of two rows gives the second row, and q[::-2] on one
\* of three elements the third and the first
C14_Witness ==
    /\ last.op = "__getitem__"
    /\ last.out.st = "ok"
    /\ \/ /\ last.self.value = ArrayData(<<2, 2>>, ArrayOfShape(<<2, 2>>))
          /\ last.a = IntKey(-1)
          /\ Contents(heap, last.out.val.value)
                 = ArrayData(<<2>>, <<Element(3), Element(4)>>)
       \/ /\ last.self.value = ArrayData(<<3>>, ArrayOfShape(<<3>>))
          /\ last.a = SliceKey(<<>>, <<>>, <<-2>>)
          /\ Contents(heap, last.out.val.value)
                 = ArrayData(<<2>>, <<Element(3), Element(1)>>)

\* two arrays have an element of a buffer in common
SharesStorage(v, w) ==
    /\ v.k = "arr"
    /\ w.k = "arr"
    /\ v.buf = w.buf
    /\ \E i \in 1..Len(v.pos), j \in 1..Len(w.pos) : v.pos[i] = w.pos[j]

\* the operand of the last operation holds what it held before the call
OperandUnchanged == last.op \in ArrayOps => Deref(heap, acc) = last.self

\* C15: Quantities are immutable values with no shared mutable state: an
\* operation leaves its operand's value and unit as they were, its result
\* shares no array storage with the operand or with the array given to the
\* constructor, and a write to one array is not visible through another
\* Quantity.
C15_ValueSemantics ==
    /\ OperandUnchanged
    /\ (last.op \in ArrayOps /\ last.out.st = "ok") =>
           /\ ~SharesStorage(last.out.val.value, acc.value)
           /\ ~SharesStorage(last.out.val.value, arr)
    /\ last.op = "write" =>
           /\ last.a # "q" => Deref(heap, acc) = last.self
           /\ last.a # "r" => Deref(heap, last.out.val) = last.other

\* the absolute value of element i of the formatted Quantity, in units of
\* 10^-FracDigits
AbsElement(i) == Abs(Scaled(ElementsOf(last.self.value)[i], FracDigits))

\* the rule of the claim's table for an absolute value a (in units of
\* 10^-FracDigits) is the format string fmt
RuleOfTable(a, fmt) ==
    /\ a = 0 => fmt = Fmt_0f
    /\ (a # 0 /\ (a < PowInt(10, FracDigits - 1)
                     \/ a > 99999 * PowInt(10, FracDigits - 1))) =>
           fmt = Fmt_2E
    /\ (PowInt(10, FracDigits - 1) <= a /\ a < PowInt(10, FracDigits + 1)) =>
           fmt = Fmt_3f
    /\ (PowInt(10, FracDigits + 1) <= a /\ a < PowInt(10, FracDigits + 2)) =>
           fmt = Fmt_2f
    /\ (PowInt(10, FracDigits + 2) <= a /\ a < PowInt(10, FracDigits + 3)) =>
           fmt = Fmt_1f
    /\ (PowInt(10, FracDigits + 3) <= a
           /\ a <= 99999 * PowInt(10, FracDigits - 1)) =>
           fmt = Fmt_0f

\* C16: with an empty override, format picks for each element on its own
\* the rule of its absolute value a: a = 0 gives 0 decimals; a < 0.1 or
\* a > 9999.9 scientific notation with 2 fractional digits; 0.1 <= a < 10
\* gives 3 fractional digits, 10 <= a < 100 gives 2, 100 <= a < 1000 gives
\* 1, 1000 <= a <= 9999.9 gives 0; a non-empty override is used as it is for
\* every element; a scalar's text starts with the number so formatted.
C16_RuleSelection ==
    last.op = "format" =>
        /\ Len(last.b) = Len(ElementsOf(last.self.value))
        /\ \A i \in 1..Len(last.b) :
               IF last.a = <<>> THEN RuleOfTable(AbsElement(i), last.b[i])
               ELSE last.b[i] = <<"{", ":">> \o last.a \o <<"}">>
        /\ ~IsNdarray(last.self.value) =>
               SubSeq(last.out.val, 1,
                      Len(StrFormat(last.b[1], last.self.value)))
                   = StrFormat(last.b[1], last.self.value)

\* [9999.9, 10000] formats its elements by different rules, and 1000.0
\* takes the rule of 0 decimals
C16_Witness ==
    /\ last.op = "format"
    /\ last.a = <<>>
    /\ \/ /\ last.self.value
                 = ArrayData(<<2>>, <<Decimal(99999, -1), Decimal(1, 4)>>)
          /\ last.b = <<Fmt_0f, Fmt_2E>>
       \/ /\ last.self.value = Decimal(1, 3)
          /\ last.b = <<Fmt_0f>>

\* a token with an explicit exponent: letters, then a signed or unsigned
\* run of digits
HasExponent(w) ==
    /\ AlphaPrefixLen(w) > 0
    /\ AlphaPrefixLen(w) < Len(w)
    /\ IsSignedInt(SubSeq(w, AlphaPrefixLen(w) + 1, Len(w)))

\* the symbol followed by the superscript marker holding the exponent text,
\* or the token alone
RenderedToken(w) ==
    IF HasExponent(w)
    THEN SubSeq(w, 1, AlphaPrefixLen(w)) \o <<"#","s","u","p","e","r","[">>
             \o SubSeq(w, AlphaPrefixLen(w) + 1, Len(w)) \o <<"]">>
    ELSE w

SeparatorGlyph == <<" ", "\\", "u", "{", "2", "2", "C", "5", "}", " ">>

RenderedTokens(unit) ==
    Join([i \in 1..Len(Split(unit)) |-> RenderedToken(Split(unit)[i])],
         SeparatorGlyph)

C18_DollarDelimited ==
    (/\ last.op = "format"
     /\ ~IsNdarray(last.self.value)
     /\ Split(last.self.unit) # <<>>) =>
        last.out.val =
            <<"$", " ">> \o FormattedNum(last.a, last.self.value)
                \o SeparatorGlyph \o RenderedTokens(last.self.unit)
                \o <<" ", "$">>

\* the last call is an operator between two Quantities
BinaryOnQuantities ==
    /\ last.op \in {"__add__", "__sub__", "__mul__", "__truediv__"}
    /\ operand.kind = "Quantity"

\* aligned from the trailing dimension, some pair of sizes of the two
\* shapes is unequal and neither is 1
CannotBroadcast(s, t) ==
    \E j \in 1..(IF Len(s) < Len(t) THEN Len(s) ELSE Len(t)) :
        /\ s[Len(s) - j + 1] # t[Len(t) - j + 1]
        /\ s[Len(s) - j + 1] # 1
        /\ t[Len(t) - j + 1] # 1

\* both operands of the last call are arrays whose shapes cannot broadcast
ArraysCannotBroadcast ==
    /\ IsNdarray(last.self.value)
    /\ IsNdarray(last.other.value)
    /\ CannotBroadcast(last.self.value.shape, last.other.value.shape)

IsShapeMismatch(out) == out.st = "ValueError" /\ out.msg = MsgBroadcast

\* C21 as claimed: two array operands of add, sub, mul or div whose shapes
\* cannot broadcast make the operation fail with ShapeMismatch, a failure
\* told apart from IncompatibleUnits; shapes that broadcast, and a scalar
\* operand, never fail this way.
C21_ShapeMismatch ==
    BinaryOnQuantities =>
        /\ ArraysCannotBroadcast => IsShapeMismatch(last.out)
        /\ ~ArraysCannotBroadcast => ~IsShapeMismatch(last.out)
        /\ ~(IsShapeMismatch(last.out) /\ IsIncompatibleUnits(last.out))

\* the unit check and the conversion that add and sub make before they
\* combine the values both succeed
UnitsPassForAdd ==
    /\ valid(last.self.unit, last.other.unit) = Return(TRUE)
    /\ conv(last.other.value, last.other.unit, last.self.unit).st = "ok"

\* C21 amended: with two array operands whose shapes cannot broadcast, mul
\* and div by a Quantity fail with ShapeMismatch whatever the unit strings
\* are, and add and sub fail with ShapeMismatch exactly when the unit check
\* and the conversion of the other value, which come first, succeed;
\* ShapeMismatch is told apart from IncompatibleUnits; shapes that
\* broadcast, and a scalar operand, never fail this way.
C21_ShapeMismatchAfterUnits ==
    BinaryOnQuantities =>
        /\ (ArraysCannotBroadcast /\ last.op \in {"__mul__", "__truediv__"})
               => IsShapeMismatch(last.out)
        /\ (ArraysCannotBroadcast /\ last.op \in {"__add__", "__sub__"})
               => (IsShapeMismatch(last.out) <=> UnitsPassForAdd)
        /\ ~ArraysCannotBroadcast => ~IsShapeMismatch(last.out)
        /\ ~(IsShapeMismatch(last.out) /\ IsIncompatibleUnits(last.out))

\* [2, 4] m + [2, 4, 8] km fails with ShapeMismatch, and [2, 4] m times a
\* column of two broadcasts to two rows of two
C21_Witness ==
    /\ BinaryOnQuantities
    /\ last.self = Quantity(ArrayData(<<2>>, ArrayOfShape(<<2>>)), <<"m">>)
    /\ IsNdarray(last.other.value)
    /\ \/ /\ last.op = "__add__"
          /\ last.other.value.shape = <<MaxLen>>
          /\ last.other.unit = <<"k","m">>
          /\ IsShapeMismatch(last.out)
       \/ /\ last.op = "__mul__"
          /\ last.other.value.shape = <<2, 1>>
          /\ last.out.st = "ok"
          /\ last.out.val.value.shape = <<2, 2>>

\* both unit strings of the last call parse and their dims differ
UnitsIncompatible ==
    /\ parse_unit(last.self.unit).st = "ok"
    /\ parse_unit(last.other.unit).st = "ok"
    /\ parse_unit(last.self.unit).val.dims
           # parse_unit(last.other.unit).val.dims

\* C24: add and sub check the units before they combine the values, mul and
\* div by a Quantity combine the values before they touch the units: with
\* incompatible units and shapes that cannot broadcast add and sub fail with
\* IncompatibleUnits; with shapes that cannot broadcast and a malformed
\* right-hand unit div fails with ShapeMismatch; mul by a Quantity fails only
\* on the shapes, whatever the unit strings are, so that a product can carry
\* a unit on which a later to fails.
C24_UnitsBeforeValues ==
    /\ (BinaryOnQuantities /\ ArraysCannotBroadcast) =>
           /\ (last.op \in {"__add__", "__sub__"} /\ UnitsIncompatible) =>
                  IsIncompatibleUnits(last.out)
           /\ (last.op = "__truediv__" /\ SomeWordMalformed(last.other.unit))
                  => IsShapeMismatch(last.out)
    /\ (BinaryOnQuantities /\ last.op = "__mul__") =>
           IF ArraysCannotBroadcast THEN IsShapeMismatch(last.out)
           ELSE last.out.st = "ok"
    /\ (last.op = "to" /\ parse_unit(last.self.unit).st # "ok") =>
           last.out.st # "ok"

\* [2, 4] m + [2, 4, 8] s: units incompatible and shapes that cannot
\* broadcast
C24_Witness ==
    /\ BinaryOnQuantities
    /\ last.op = "__add__"
    /\ ArraysCannotBroadcast
    /\ UnitsIncompatible
    /\ last.self.unit = <<"m">>
    /\ last.other.unit = <<"s">>
    /\ IsIncompatibleUnits(last.out)

\* [2, 4] m / [2, 4, 8] "2m" fails on the shapes
C24_DivWitness ==
    /\ BinaryOnQuantities
    /\ last.op = "__truediv__"
    /\ ArraysCannotBroadcast
    /\ SomeWordMalformed(last.other.unit)
    /\ IsShapeMismatch(last.out)

\* a product with the unit "m 2m" on which to fails with InvalidToken
C24_ProductWitness ==
    /\ last.op = "to"
    /\ SomeWordMalformed(last.self.unit)
    /\ IsInvalidToken(last.out)

\* dims[d], 0 for a dimension that dims does not hold
DimOf(dims, d) == IF d \in DOMAIN dims THEN dims[d] ELSE 0

\* the last call multiplied or divided the chain's Quantity by a Quantity
\* and both unit strings parse
FactorsParse ==
    /\ last.op \in {"__mul__", "__truediv__"}
    /\ parse_unit(last.self.unit).st = "ok"
    /\ parse_unit(last.other.unit).st = "ok"

\* +1 for a product, -1 for a quotient
FactorSign == IF last.op = "__mul__" THEN 1 ELSE -1

\* scale(self) * scale(other) for a product, scale(self) / scale(other)
\* for a quotient
FactorScale(c_self, c_other) ==
    IF last.op = "__mul__"
    THEN Return(FMul(c_self.scale, c_other.scale))
    ELSE FDiv(c_self.scale, c_other.scale)

\* what the result's unit string parses to, against the operands'
ResultUnitConsistent(c_self, c_other, c_out) ==
    /\ c_out.st = "ok"
    /\ \A d \in BaseDims :
           DimOf(c_out.val.dims, d)
               = DimOf(c_self.dims, d) + FactorSign * DimOf(c_other.dims, d)
    /\ FactorScale(c_self, c_other).st = "ok"
    /\ c_out.val.scale = FactorScale(c_self, c_other).val

\* C22: in any sequence of Quantity-by-Quantity products and quotients, when
\* both operands' unit strings parse the result's unit string parses, its
\* dims are the sum (for a quotient the difference) of the operands' dims and
\* its scale the product (the quotient) of their scales; and (a / b) * b is
\* compatible with a.
C22_UnitConsistency ==
    /\ FactorsParse =>
           /\ last.out.st = "ok"
           /\ ResultUnitConsistent(parse_unit(last.self.unit).val,
                                   parse_unit(last.other.unit).val,
                                   parse_unit(last.out.val.unit))
    /\ ( /\ last.op = "div_mul"
         /\ parse_unit(last.a).st = "ok"
         /\ parse_unit(last.other.unit).st = "ok" ) =>
           /\ last.out.st = "ok"
           /\ valid(last.out.val.unit, last.a) = Return(TRUE)

\* the failure parse_unit ends with on a word it fails on
WordFailure(tok) ==
    IF WordStatus(tok) = "invalid" THEN Raise("ValueError", MsgInvalidToken)
    ELSE IF WordStatus(tok) = "unknown"
         THEN Raise("ValueError", MsgUnknownUnit)
    ELSE Raise("OverflowError", "")

\* u has a word parse_unit fails on
HasFailingWord(u) == FirstFailing(Tokens(u)) # 0

\* the failure of the first such word of u
FirstFailure(u) == WordFailure(Tokens(u)[FirstFailing(Tokens(u))])

\* the order of the checks in the call the state records
ChecksInOrder ==
    /\ (last.op \in {"parse_unit", "parse_unit_again"}
            /\ HasFailingWord(last.a)) =>
           last.out = FirstFailure(last.a)
    /\ last.op \in {"conv", "conv_again"} =>
           /\ HasFailingWord(last.a) => last.out = FirstFailure(last.a)
           /\ (~HasFailingWord(last.a) /\ HasFailingWord(last.b)) =>
                  last.out = FirstFailure(last.b)
           /\ IsIncompatibleUnits(last.out) =>
                  ~HasFailingWord(last.a) /\ ~HasFailingWord(last.b)

\* a call repeated with the same arguments ends as the first one did
RepeatsIdentically ==
    (last'.op \in {"parse_unit_again", "conv_again"}) => last'.out = last.out

\* C23: parse_unit reports the failure of the first word, left to right, that
\* it fails on (an unknown symbol before a malformed word gives UnknownUnit);
\* conv reports a parse failure of from_unit before any failure of to_unit
\* and any parse failure before IncompatibleUnits; the same arguments always
\* give the same failure.
C23_OrderOfChecks == [](ChecksInOrder) /\ [][RepeatsIdentically]_vars

\* conv, called twice, with an unknown symbol first in from_unit and a
\* malformed word first in to_unit
C23_Witness ==
    /\ last.op = "conv_again"
    /\ HasFailingWord(last.a)
    /\ HasFailingWord(last.b)
    /\ WordStatus(Tokens(last.a)[FirstFailing(Tokens(last.a))]) = "unknown"
    /\ WordStatus(Tokens(last.b)[FirstFailing(Tokens(last.b))]) = "invalid"
    /\ IsUnknownUnit(last.out)

\* k is one or more letters and nothing else
IsSymbol(k) == k # <<>> /\ \A i \in 1..Len(k) : k[i] \in AsciiLetters

\* C25: every key of the Unit Table is one or more alphabetic characters, so
\* that parse_unit, conv and valid reach its entry: parse_unit never rejects
\* a key as InvalidToken.
C25_KeysMatchGrammar ==
    /\ last.op \in {"parse_unit", "conv", "valid"} =>
           /\ IsSymbol(last.a)
           /\ ~IsInvalidToken(last.out)
    /\ last.op = "parse_unit" =>
           /\ last.out.st = "ok"
           /\ last.out.val.dims = UNIT_DB(last.a).dims
    /\ last.op = "conv" => last.out = Return(One)
    /\ (last.op = "valid" /\ last.a = last.b) => last.out = Return(TRUE)

\* the two unit strings of the last convert, to, add or sub
LeftUnit == IF last.op = "conv" THEN last.a ELSE last.self.unit
RightUnit ==
    IF last.op = "conv" THEN last.b
    ELSE IF last.op = "to" THEN last.a
    ELSE last.other.unit

\* no word of u has a scale power above the float range
NoWordOverflows(u) ==
    \A i \in 1..Len(Tokens(u)) : WordStatus(Tokens(u)[i]) # "overflow"

\* C19: whenever convert, to, add or sub is given a unit string with a
\* well-formed symbol absent from the table the caller receives UnknownUnit,
\* and whenever it has a word outside the grammar, InvalidToken; neither is
\* reported as IncompatibleUnits or ignored (stated for unit strings none of
\* whose words leaves the float range).
C19_AlwaysSurfaced ==
    (last.op \in {"conv", "to", "add", "sub"}
        /\ NoWordOverflows(LeftUnit) /\ NoWordOverflows(RightUnit)) =>
        /\ (SomeWordMalformed(LeftUnit) \/ SomeWordMalformed(RightUnit)
                \/ SomeSymbolAbsent(LeftUnit) \/ SomeSymbolAbsent(RightUnit))
               => (IsInvalidToken(last.out) \/ IsUnknownUnit(last.out))
        /\ IsInvalidToken(last.out) =>
               (SomeWordMalformed(LeftUnit) \/ SomeWordMalformed(RightUnit))
        /\ IsUnknownUnit(last.out) =>
               (SomeSymbolAbsent(LeftUnit) \/ SomeSymbolAbsent(RightUnit))

\* C20: an operand of an unsupported kind yields the not-applicable signal,
\* no failure and no result: add and sub accept only a Quantity (a plain
\* number is not applicable, even for a dimensionless Quantity), mul and div
\* accept a plain number or a Quantity, the reflected operations only a
\* plain number.
C20_NotApplicable ==
    /\ last.op \in {"__add__", "__sub__"} =>
           (last.out = NotImplemented <=> operand.kind # "Quantity")
    /\ last.op \in {"__mul__", "__truediv__"} =>
           (last.out = NotImplemented
                <=> operand.kind \notin {"number", "Quantity"})
    /\ last.op \in {"__rmul__", "__rtruediv__"} =>
           (last.out = NotImplemented <=> operand.kind # "number")
    /\ last.op \in {"__add__", "__sub__", "__mul__", "__truediv__",
                     "__rmul__", "__rtruediv__"} =>
           /\ last.out.st = "NotImplemented" => last.out.val = <<>>
           /\ acc = last.self

\* a plain number added to a dimensionless Quantity
C20_Witness ==
    /\ last.op = "__add__"
    /\ operand.kind = "number"
    /\ last.self.unit = <<>>
    /\ last.out = NotImplemented

====
